---- MODULE Spec2Model ----
(***************************************************************************)
(* A model of claude_colab.py: the role hierarchy and the settings store   *)
(* of the bot folders, the key vending machine (keystore), the session of  *)
(* a ClaudeColab client, the checkpoint gate and the claim of a shared     *)
(* task.  Names and message texts are sequences of characters, so that     *)
(* str.upper() and the substring test of get_mentions are computed, not    *)
(* assumed.                                                                *)
(***************************************************************************)
EXTENDS Integers, Sequences, FiniteSets, TLC

VARIABLES
    cm,         \* the last can_manage_bot call: its arguments and its result
    docs,       \* per bot folder: the state and content of settings.json
    setRet,     \* the last settings call (write, set_todos, add_rule)
    sess,       \* per process: the fields of its ClaudeColab object
    environ,    \* os.environ: the CLAUDE_COLAB_KEY* variables
    keystore,   \* the file C:\claude\keystore.json
    clock,      \* datetime.now(), in minutes
    conRet,     \* the last connect / stock_key / help_buddy call
    chat,       \* backend: the chat messages, newest first
    tasks,      \* backend: the shared_tasks table
    cpRet,      \* the last checkpoint call
    opRet,      \* the last call of another operation of the session
    pc,         \* per process: where it stands in a claim_task call
    net,        \* claim requests and responses in flight
    claimLog,   \* per task: the claim_task calls that have returned
    held        \* per process: a local writer between its read and its write

vars == <<cm, docs, setRet, sess, environ, keystore, clock, conRet,
          chat, tasks, cpRet, opRet, pc, net, claimLog, held>>

rolesVars    == <<cm>>
settingsVars == <<docs, setRet>>
sessionVars  == <<sess, environ, keystore, clock, conRet>>
backendVars  == <<chat, tasks>>
gateVars     == <<cpRet, opRet>>
claimVars    == <<pc, net, claimLog>>
raceVars     == <<held>>

-----------------------------------------------------------------------------
(* Strings as sequences of characters.                                     *)

LowerAlpha == <<"a","b","c","d","e","f","g","h","i","j","k","l","m",
                "n","o","p","q","r","s","t","u","v","w","x","y","z">>
UpperAlpha == <<"A","B","C","D","E","F","G","H","I","J","K","L","M",
                "N","O","P","Q","R","S","T","U","V","W","X","Y","Z">>

\* str.upper() on one character: a lower-case letter becomes its capital,
\* every other character stays.
UpperTable ==
    [c \in {LowerAlpha[i] : i \in 1..Len(LowerAlpha)} |->
        UpperAlpha[CHOOSE i \in 1..Len(LowerAlpha) : LowerAlpha[i] = c]]

UpperChar(c) == IF c \in DOMAIN UpperTable THEN UpperTable[c] ELSE c

\* str.upper()
upper(s) == [i \in 1..Len(s) |-> UpperChar(s[i])]

\* None, and the empty string: both are falsy in `if manager_name`.
NoName == <<>>

N_BLACK      == <<"B","L","A","C","K">>
N_INTOLERANT == <<"I","N","T","O","L","E","R","A","N","T">>
N_OLLAMA     == <<"O","L","L","A","M","A">>
N_TKINTER    == <<"T","K","I","N","T","E","R">>

\* dict.get(key, default)
DictGet(d, k, default) == IF k \in DOMAIN d THEN d[k] ELSE default

-----------------------------------------------------------------------------
(* Role hierarchy.                                                         *)

ROLE_HIERARCHY ==
    [r \in {"supervisor", "manager", "worker", "grunt", "bot"} |->
        CASE r = "supervisor" -> 4
          [] r = "manager"    -> 3
          [] r = "worker"     -> 2
          [] r = "grunt"      -> 1
          [] r = "bot"        -> 0]

BOT_ROLES ==
    [n \in {N_BLACK, N_INTOLERANT, N_OLLAMA, N_TKINTER} |->
        CASE n = N_BLACK      -> "supervisor"
          [] n = N_INTOLERANT -> "worker"
          [] n = N_OLLAMA     -> "grunt"
          [] n = N_TKINTER    -> "bot"]

\* A plausible slip: >= instead of >, which lets equals manage each other.
can_manage_bot_ge(manager_name, target_name) ==
    LET manager_role == DictGet(BOT_ROLES, upper(manager_name), "bot")
        target_role  == DictGet(BOT_ROLES, upper(target_name), "bot")
    IN  DictGet(ROLE_HIERARCHY, manager_role, 0) >= DictGet(ROLE_HIERARCHY, target_role, 0)

can_manage_bot(manager_name, target_name) ==
    LET manager_role == DictGet(BOT_ROLES, upper(manager_name), "bot")
        target_role  == DictGet(BOT_ROLES, upper(target_name), "bot")
    IN  DictGet(ROLE_HIERARCHY, manager_role, 0) > DictGet(ROLE_HIERARCHY, target_role, 0)

\* The names the role checks are tried on: the four bots of the table in
\* capitals, in lower and in mixed case, and names the table does not hold
\* (one of them spelt like a role).
RoleNames ==
    { N_BLACK, <<"b","l","a","c","k">>, <<"B","l","a","c","k">>,
      N_INTOLERANT, <<"i","n","t","o","l","e","r","a","n","t">>,
      N_OLLAMA, <<"o","l","l","a","m","a">>, <<"O","l","l","A","m","a">>,
      N_TKINTER, <<"t","k","i","n","t","e","r">>,
      <<"Z","E","D">>, <<"z","e","d">>, <<"m","a","n","a","g","e","r">> }


-----------------------------------------------------------------------------
(* Settings store: one settings.json per bot folder.                       *)
(* A JSON value is a record of one shape, so that values of different      *)
(* kinds can be compared: t is its kind, n a number's value, l a list's    *)
(* elements, m a mapping (nested key -> leaf, 0 where the key is absent).  *)
(* Leaves of a nested mapping are opaque: dict.update replaces them.       *)

TopKeys    == {"rules", "startup_todos", "cfg"}
NestedKeys == {"a", "b"}
RuleStrs   == {"r1", "r2"}

EmptyMap == [k \in NestedKeys |-> 0]
Absent   == [t |-> "absent", n |-> 0, l |-> <<>>, m |-> EmptyMap]
Num(k)   == [t |-> "num",    n |-> k, l |-> <<>>, m |-> EmptyMap]
List(s)  == [t |-> "list",   n |-> 0, l |-> s,    m |-> EmptyMap]
Map(f)   == [t |-> "map",    n |-> 0, l |-> <<>>, m |-> f]

Elems(s)   == {s[i] : i \in 1..Len(s)}
MapKeys(f) == {k \in NestedKeys : f[k] # 0}

\* {} : the document with no key
EmptyDoc == [k \in TopKeys |-> Absent]

\* A folder C:\claude\<NAME> is missing, or holds no settings.json, or one
\* that json.loads rejects, or one that parses to a mapping (c).
NoFolder   == [st |-> "nofolder", c |-> EmptyDoc]
NoFile     == [st |-> "nofile",   c |-> EmptyDoc]
CorruptDoc == [st |-> "corrupt",  c |-> EmptyDoc]
OkDoc(c)   == [st |-> "ok",       c |-> c]

\* The folders the model follows; every other name has no folder.
Folders == {N_BLACK, N_OLLAMA}

\* get_bot_folder: the folder's name, or NoName for None
get_bot_folder(d, bot_name) ==
    LET folder == upper(bot_name)
    IN  IF folder \in DOMAIN d /\ d[folder].st # "nofolder" THEN folder ELSE NoName

\* A plausible slip: a document that does not parse read as an empty one.
get_bot_settings_corruptEmpty(d, bot_name) ==
    IF get_bot_folder(d, bot_name) = NoName THEN [some |-> FALSE, c |-> EmptyDoc]
    ELSE IF d[get_bot_folder(d, bot_name)].st = "nofile" THEN [some |-> FALSE, c |-> EmptyDoc]
    ELSE [some |-> TRUE, c |-> d[get_bot_folder(d, bot_name)].c]

\* get_bot_settings: [some |-> FALSE] stands for None
get_bot_settings(d, bot_name) ==
    LET folder == get_bot_folder(d, bot_name)
    IN  IF folder = NoName THEN [some |-> FALSE, c |-> EmptyDoc]
        ELSE IF d[folder].st = "nofile" THEN [some |-> FALSE, c |-> EmptyDoc]
        ELSE IF d[folder].st = "corrupt" THEN [some |-> FALSE, c |-> EmptyDoc]
        ELSE [some |-> TRUE, c |-> d[folder].c]

\* A plausible slip: the patch value always assigned, mappings not merged.
MergeValue_replace(old, new) == new

\* A plausible slip: a "deep" merge that also extends lists.
MergeValue_extend(old, new) ==
    IF new.t = "map" /\ old.t = "map"
    THEN Map([k \in NestedKeys |-> IF new.m[k] # 0 THEN new.m[k] ELSE old.m[k]])
    ELSE IF new.t = "list" /\ old.t = "list" THEN List(old.l \o new.l)
    ELSE new

\* The loop body of the merge, for one key that the patch holds:
\* existing[key].update(value) when both are dicts, else existing[key] = value
MergeValue(old, new) ==
    IF new.t = "map" /\ old.t # "absent" /\ old.t = "map"
    THEN Map([k \in NestedKeys |-> IF new.m[k] # 0 THEN new.m[k] ELSE old.m[k]])
    ELSE new

\* for key, value in settings.items(): ...
MergeDoc(existing, settings) ==
    [k \in TopKeys |->
        IF settings[k].t = "absent" THEN existing[k]
        ELSE MergeValue(existing[k], settings[k])]

\* if manager_name and not can_manage_bot(manager_name, bot_name)
HierarchyDenies(manager_name, bot_name) ==
    manager_name # NoName /\ ~can_manage_bot(manager_name, bot_name)

\* set_bot_settings: [ok |-> what it returns, docs |-> the folders afterwards]
set_bot_settings(d, bot_name, settings, manager_name) ==
    IF HierarchyDenies(manager_name, bot_name)
    THEN [ok |-> FALSE, docs |-> d]
    ELSE LET folder == get_bot_folder(d, bot_name) IN
         IF folder = NoName THEN [ok |-> FALSE, docs |-> d]
         ELSE IF d[folder].st = "corrupt"
         THEN [ok |-> FALSE, docs |-> d]      \* json.loads raises, caught
         ELSE LET existing == IF d[folder].st = "ok" THEN d[folder].c ELSE EmptyDoc
              IN  [ok   |-> TRUE,
                   docs |-> [d EXCEPT ![folder] = OkDoc(MergeDoc(existing, settings))]]

\* set_bot_todos
set_bot_todos(d, bot_name, todos, manager_name) ==
    set_bot_settings(d, bot_name, [EmptyDoc EXCEPT !["startup_todos"] = todos],
                     manager_name)

\* A plausible slip: the membership test left out, the rule always appended.
RuleInList_never(rule, l) == FALSE

\* add_bot_rule, line 185: `rule not in rules` on a list
RuleInList(rule, l) == rule \in Elems(l)

\* add_bot_rule: raised is TRUE when an exception leaves the function
\* (`rule not in rules` on a value that is no container, or rules.append on
\* one that is no list); nothing catches it there.
add_bot_rule(d, bot_name, rule, manager_name) ==
    LET got      == get_bot_settings(d, bot_name)
        settings == IF got.some THEN got.c ELSE EmptyDoc
        rules    == IF settings["rules"].t = "absent" THEN List(<<>>)
                    ELSE settings["rules"]
        write(v) == LET r == set_bot_settings(d, bot_name,
                                 [EmptyDoc EXCEPT !["rules"] = v], manager_name)
                    IN  [raised |-> FALSE, ok |-> r.ok, docs |-> r.docs]
        raise    == [raised |-> TRUE, ok |-> FALSE, docs |-> d]
    IN  CASE rules.t = "list" ->
               IF RuleInList(rule, rules.l) THEN write(rules)
               ELSE write(List(Append(rules.l, rule)))
          [] rules.t = "map" ->
               IF rule \in MapKeys(rules.m) THEN write(rules) ELSE raise
          [] OTHER -> raise


-----------------------------------------------------------------------------
(* The state in which nothing has been called yet.                         *)

Procs == {"p1", "p2"}

\* None, and the empty string, for a credential: both are falsy.
NoKey == ""

DefaultProject == "claude-colab"

\* ClaudeColab.__init__
NewSession ==
    [api_key |-> NoKey, team_id |-> "", user_id |-> "", claude_name |-> NoName,
     project_slug |-> DefaultProject, connected |-> FALSE]

\* The names whose CLAUDE_COLAB_KEY_<NAME> variable and keystore entry the
\* model follows.
KeyNames == {N_BLACK, N_INTOLERANT}

CmIdle       == [called |-> FALSE, m |-> NoName, t |-> NoName, res |-> FALSE]
DocsIdle     == [f \in Folders |-> NoFile]
SetIdle      == [op |-> "none", bot |-> NoName, mgr |-> NoName, result |-> "none",
                 patch |-> EmptyDoc, rule |-> "", again |-> FALSE, changed |-> FALSE]
SessIdle     == [p \in Procs |-> NewSession]
EnvironIdle  == [generic |-> NoKey, scoped |-> [n \in KeyNames |-> NoKey]]
KeystoreIdle == [st |-> "nofile", keys |-> [n \in KeyNames |-> NoKey], updated |-> 0]
ConIdle      == [op |-> "none", ret |-> FALSE, arg |-> NoKey, name |-> NoName,
                 key |-> NoKey, requester |-> NoKey, resolved |-> NoKey,
                 out |-> <<>>, req |-> <<>>, prior |-> NoKey]
ChatIdle     == <<>>
TasksIdle    == <<>>
NoResult     == [passed |-> TRUE, mentions |-> 0, tasks |-> 0, blockers |-> <<>>]
CpIdle       == [op |-> "none", hard |-> FALSE, check_mentions |-> FALSE,
                 check_tasks |-> FALSE, was |-> FALSE, out |-> <<>>,
                 resp0 |-> "none", respChat |-> "none", respTasks |-> "none",
                 raised |-> FALSE, result |-> NoResult, carried |-> <<>>,
                 chatFetches |-> 0, taskFetches |-> 0]
OpIdle       == [op |-> "none", arg |-> 0, flags |-> <<>>, was |-> FALSE, out |-> <<>>,
                 sent |-> <<>>, resp |-> "none", ret |-> "none",
                 raised |-> FALSE, found |-> <<>>, list |-> <<>>,
                 resps |-> <<>>, patch |-> <<>>]
PcIdle       == [p \in Procs |-> "idle"]
NetIdle      == {}
ClaimLogIdle == {}
HeldNone     == [at |-> "idle", op |-> "none", ret |-> "none", folder |-> NoName,
                 patch |-> EmptyDoc, existing |-> EmptyDoc,
                 name |-> NoName, key |-> NoKey, keys |-> KeystoreIdle.keys]
HeldIdle     == [p \in Procs |-> HeldNone]

RolesAtRest    == cm = CmIdle
SettingsAtRest == docs = DocsIdle /\ setRet = SetIdle
SessionAtRest  == /\ sess = SessIdle /\ environ = EnvironIdle
                  /\ keystore = KeystoreIdle /\ clock = 0 /\ conRet = ConIdle
BackendAtRest  == chat = ChatIdle /\ tasks = TasksIdle
GateAtRest     == cpRet = CpIdle /\ opRet = OpIdle
ClaimAtRest    == pc = PcIdle /\ net = NetIdle /\ claimLog = ClaimLogIdle
RaceAtRest     == held = HeldIdle

-----------------------------------------------------------------------------
(* SpecRoles: can_manage_bot applied to every pair of names.               *)

CanManage(m, t) ==
    /\ cm' = [called |-> TRUE, m |-> m, t |-> t, res |-> can_manage_bot(m, t)]
    /\ UNCHANGED <<settingsVars, sessionVars, backendVars, gateVars, claimVars, raceVars>>

InitRoles ==
    /\ RolesAtRest /\ SettingsAtRest /\ SessionAtRest
    /\ BackendAtRest /\ GateAtRest /\ ClaimAtRest /\ RaceAtRest

NextRoles == \E m \in RoleNames, t \in RoleNames : CanManage(m, t)

SpecRoles == InitRoles /\ [][NextRoles]_vars

\* The rank the role table gives a name, read off the table by hand: the
\* spellings of BLACK are supervisors (4), of INTOLERANT workers (2), of
\* OLLAMA grunts (1); TKINTER is a bot and every other name counts as one (0).
TableRank(n) ==
    CASE n \in {N_BLACK, <<"b","l","a","c","k">>, <<"B","l","a","c","k">>} -> 4
      [] n \in {N_INTOLERANT, <<"i","n","t","o","l","e","r","a","n","t">>} -> 2
      [] n \in {N_OLLAMA, <<"o","l","l","a","m","a">>, <<"O","l","l","A","m","a">>} -> 1
      [] OTHER -> 0

\* C1: can_manage(m, t) is true iff rank(role(m)) > rank(role(t)), for names
\* in any letter case, names outside the table having rank 0; so equal ranks,
\* and a name with itself, always give false.
C1_CanManageIffStrictlyHigherRank ==
    cm.called =>
        /\ cm.res <=> (TableRank(cm.m) > TableRank(cm.t))
        /\ (TableRank(cm.m) = TableRank(cm.t)) => ~cm.res
        /\ (cm.m = cm.t) => ~cm.res

\* C1 witness: lower-case "black" was found to manage OLLAMA.
C1_Witness ==
    /\ cm.called /\ cm.m = <<"b","l","a","c","k">> /\ cm.t = N_OLLAMA /\ cm.res


-----------------------------------------------------------------------------
(* SpecSettings: write, set_todos and add_rule on the bot folders, by any  *)
(* manager or by none.                                                     *)

\* The bots written to (in the letter case the caller happens to use) and
\* the managers named; NoName is a call that leaves manager_name out.
TargetNames  == {N_BLACK, <<"O","l","l","a","m","a">>}
ManagerNames == {NoName, N_BLACK, <<"o","l","l","a","m","a">>}

\* The patches written here: the rules key set to a list or to a nested
\* mapping (two of them, so that mappings merge).
Patch(rules, cfg) == [EmptyDoc EXCEPT !["rules"] = rules, !["cfg"] = cfg]
Patches ==
    { Patch(List(<<"r1">>), Absent),
      Patch(Map([EmptyMap EXCEPT !["a"] = 1]), Absent),
      Patch(Map([EmptyMap EXCEPT !["b"] = 1]), Absent) }
TodoLists == {List(<<"t1">>)}

Outcome(ok) == IF ok THEN "true" ELSE "false"

\* What a settings call leaves to look at: its arguments and result,
\* whether it repeats the call before it, and whether it changed a file.
SetRecord(op, bot, mgr, patch, rule, result, after) ==
    [op |-> op, bot |-> bot, mgr |-> mgr, result |-> result,
     patch |-> patch, rule |-> rule,
     again |-> (setRet.op = op /\ setRet.bot = bot /\ setRet.mgr = mgr
                /\ setRet.patch = patch /\ setRet.rule = rule),
     changed |-> (after # docs)]

Write(bot, patch, mgr) ==
    LET r == set_bot_settings(docs, bot, patch, mgr) IN
    /\ docs' = r.docs
    /\ setRet' = SetRecord("write", bot, mgr, patch, "", Outcome(r.ok), r.docs)
    /\ UNCHANGED <<rolesVars, sessionVars, backendVars, gateVars, claimVars, raceVars>>

SetTodos(bot, todos, mgr) ==
    LET r == set_bot_todos(docs, bot, todos, mgr) IN
    /\ docs' = r.docs
    /\ setRet' = SetRecord("set_todos", bot, mgr,
                           [EmptyDoc EXCEPT !["startup_todos"] = todos], "",
                           Outcome(r.ok), r.docs)
    /\ UNCHANGED <<rolesVars, sessionVars, backendVars, gateVars, claimVars, raceVars>>

AddRule(bot, rule, mgr) ==
    LET r == add_bot_rule(docs, bot, rule, mgr) IN
    /\ docs' = r.docs
    /\ setRet' = SetRecord("add_rule", bot, mgr, EmptyDoc, rule,
                           IF r.raised THEN "raised" ELSE Outcome(r.ok), r.docs)
    /\ UNCHANGED <<rolesVars, sessionVars, backendVars, gateVars, claimVars, raceVars>>

InitSettings ==
    /\ docs \in [Folders -> {NoFolder, NoFile, CorruptDoc, OkDoc(EmptyDoc)}]
    /\ setRet = SetIdle
    /\ RolesAtRest /\ SessionAtRest /\ BackendAtRest /\ GateAtRest /\ ClaimAtRest /\ RaceAtRest

NextSettings ==
    \E bot \in TargetNames, mgr \in ManagerNames :
        \/ \E patch \in Patches : Write(bot, patch, mgr)
        \/ \E todos \in TodoLists : SetTodos(bot, todos, mgr)
        \/ \E rule \in RuleStrs : AddRule(bot, rule, mgr)

SpecSettings == InitSettings /\ [][NextSettings]_vars

\* The last settings call named a manager that does not outrank its target.
DeniedCall ==
    /\ setRet.op # "none"
    /\ setRet.mgr # NoName
    /\ ~(TableRank(setRet.mgr) > TableRank(setRet.bot))

\* C2: a write, set_todos or add_rule call whose manager_name fails can_manage
\* returns false, raises nothing, and leaves the target's settings document as
\* it was (read before = read after).
C2_DeniedCallReturnsFalseAndChangesNothing ==
    [][DeniedCall' =>
        /\ setRet'.result = "false"
        /\ get_bot_settings(docs', setRet'.bot) = get_bot_settings(docs, setRet'.bot)
      ]_vars


\* The rules entry of a folder's document; Absent when there is no document.
RulesOf(d, folder) ==
    IF folder \in DOMAIN d /\ d[folder].st = "ok" THEN d[folder].c["rules"] ELSE Absent

NoDuplicates(l) == \A i, j \in 1..Len(l) : l[i] = l[j] => i = j

\* C15: add_rule is idempotent: no call leaves a rule string twice in a
\* rules array, and add_rule(name, r) on a document whose rules array holds
\* r already leaves that array as it was.
C15_AddRuleIsIdempotent ==
    [][ /\ \A f \in Folders :
              RulesOf(docs', f).t = "list" => NoDuplicates(RulesOf(docs', f).l)
        /\ ( /\ setRet'.op = "add_rule"
             /\ RulesOf(docs, upper(setRet'.bot)).t = "list"
             /\ setRet'.rule \in Elems(RulesOf(docs, upper(setRet'.bot)).l) )
           => RulesOf(docs', upper(setRet'.bot)) = RulesOf(docs, upper(setRet'.bot))
      ]_vars

\* BLACK added r1 to OLLAMA twice in a row, both calls succeeded, the second
\* changed nothing and the array holds r1 once.
C15_Witness ==
    /\ setRet.op = "add_rule" /\ setRet.rule = "r1" /\ setRet.result = "true"
    /\ setRet.mgr = N_BLACK /\ upper(setRet.bot) = N_OLLAMA
    /\ setRet.again /\ ~setRet.changed
    /\ RulesOf(docs, N_OLLAMA) = List(<<"r1">>)

\* C27: a write to a target whose folder exists and whose settings
\* document is corrupt, by a caller who may manage it, goes on as if the
\* document were empty: it returns true and leaves the patch for a document.
C27_WriteTreatsCorruptDocumentAsEmpty ==
    [][ \A f \in Folders :
          (/\ docs[f] = CorruptDoc
           /\ setRet'.op = "write" /\ upper(setRet'.bot) = f
           /\ ~HierarchyDenies(setRet'.mgr, setRet'.bot)) =>
              /\ setRet'.result = "true"
              /\ docs'[f] = OkDoc(MergeDoc(EmptyDoc, setRet'.patch))
      ]_vars

\* C24: no call raises, a hard checkpoint that fails excepted: a settings
\* call ends in true or false, an operation of the session in its result.
C24_NoOperationRaises ==
    /\ setRet.result # "raised"
    /\ ~opRet.raised
    /\ cpRet.raised => cpRet.hard


-----------------------------------------------------------------------------
(* SpecMerge: writes of patches that set lists, scalars and nested         *)
(* mappings over documents that hold such values already, and writes that  *)
(* fail while settings.json is being written.                              *)

\* set_bot_settings, line 148, failing: write_text opens settings.json for
\* writing, which empties it, and writes the text; how is "open" when the
\* file could not be opened (it keeps its content) and "partial" when the
\* write stopped part-way: the file then holds a proper prefix of the text
\* of a JSON object, which json.loads rejects.  The OSError is caught and
\* the call returns False.
set_bot_settings_failing(d, bot_name, settings, manager_name, how) ==
    IF how = "partial"
    THEN [ok |-> FALSE, docs |-> [d EXCEPT ![get_bot_folder(d, bot_name)] = CorruptDoc]]
    ELSE [ok |-> FALSE, docs |-> d]

\* The write reaches line 148: not denied, the folder is there and the
\* document, when there is one, parses.
ReachesWrite(d, bot_name, settings, manager_name) ==
    set_bot_settings(d, bot_name, settings, manager_name).ok

WriteInterrupted(bot, patch, mgr, how) ==
    /\ ReachesWrite(docs, bot, patch, mgr)
    /\ docs' = set_bot_settings_failing(docs, bot, patch, mgr, how).docs
    /\ setRet' = SetRecord("write_interrupted", bot, mgr, patch, "", "false",
                           set_bot_settings_failing(docs, bot, patch, mgr, how).docs)
    /\ UNCHANGED <<rolesVars, sessionVars, backendVars, gateVars, claimVars, raceVars>>

MergePatches ==
    { Patch(r, c) :
        r \in {Absent, List(<<"r1">>), Map([EmptyMap EXCEPT !["a"] = 1])},
        c \in {Absent, Num(1), Map(EmptyMap),
               Map([EmptyMap EXCEPT !["a"] = 2]), Map([EmptyMap EXCEPT !["b"] = 1]),
               Map([EmptyMap EXCEPT !["a"] = 1, !["b"] = 2])} }

\* A document written earlier: todos, and a nested mapping under cfg.
StartDoc ==
    [EmptyDoc EXCEPT !["startup_todos"] = List(<<"t1">>),
                     !["cfg"] = Map([EmptyMap EXCEPT !["a"] = 2])]

InitMerge ==
    /\ docs \in {[DocsIdle EXCEPT ![N_BLACK] = b] :
                    b \in {NoFile, CorruptDoc, OkDoc(EmptyDoc), OkDoc(StartDoc)}}
    /\ setRet = SetIdle
    /\ RolesAtRest /\ SessionAtRest /\ BackendAtRest /\ GateAtRest /\ ClaimAtRest /\ RaceAtRest

NextMerge ==
    \/ \E patch \in MergePatches : Write(N_BLACK, patch, NoName)
    \/ \E patch \in MergePatches, how \in {"open", "partial"} :
            WriteInterrupted(N_BLACK, patch, NoName, how)

SpecMerge == InitMerge /\ [][NextMerge]_vars

\* The document a folder holds, the empty one when it holds none.
PriorDoc(d, folder) == IF d[folder].st = "ok" THEN d[folder].c ELSE EmptyDoc

C14_WriteTwiceIsWriteOnce ==
    (setRet.op = "write" /\ setRet.again) => ~setRet.changed

\* The same patch, a list and a nested mapping, written twice in a row over
\* a document that held other values; both writes succeeded.
C14_Witness ==
    /\ setRet.op = "write" /\ setRet.again /\ setRet.result = "true"
    /\ setRet.patch = Patch(List(<<"r1">>), Map([EmptyMap EXCEPT !["b"] = 1]))
    /\ docs[N_BLACK] = OkDoc([StartDoc EXCEPT
                                !["rules"] = List(<<"r1">>),
                                !["cfg"] = Map([EmptyMap EXCEPT !["a"] = 2, !["b"] = 1])])

\* C16: a write whose persisting fails or stops part-way leaves the complete
\* prior document or the complete new one, never a truncated one.
C16_WriteLeavesPriorOrNewDocument ==
    [][setRet'.op \in {"write", "write_interrupted"} =>
        \/ docs'[upper(setRet'.bot)] = docs[upper(setRet'.bot)]
        \/ docs'[upper(setRet'.bot)] =
              OkDoc(MergeDoc(PriorDoc(docs, upper(setRet'.bot)), setRet'.patch))
      ]_vars


-----------------------------------------------------------------------------
(* Credentials, the validation call, the keystore and connect.             *)

\* The credentials in play.  The backend's api_keys table knows four of
\* them; "cc_bad" is a credential it does not know.
Keys == {"cc_1", "cc_2", "cc_3", "cc_4", "cc_bad"}

KeyTable ==
    [k \in {"cc_1", "cc_2", "cc_3", "cc_4"} |->
        CASE k = "cc_1" -> [team_id |-> "T1", user_id |-> "U1", claude_name |-> N_BLACK]
          [] k = "cc_2" -> [team_id |-> "T1", user_id |-> "U2", claude_name |-> N_BLACK]
          [] k = "cc_3" -> [team_id |-> "T1", user_id |-> "U3", claude_name |-> N_OLLAMA]
          [] k = "cc_4" -> [team_id |-> "T2", user_id |-> "U4", claude_name |-> N_INTOLERANT]]

\* What a call of rpc/validate_api_key can come to: "ok" is 200 with the
\* key's row, "empty" 200 with no row, "non200" any other status, and
\* "transport" an exception raised by requests.post.
Responses(k) ==
    IF k \in DOMAIN KeyTable THEN {"ok", "non200", "transport"}
    ELSE {"empty", "non200", "transport"}

\* _validate_key: data[0] on 200 with a non-empty list, else None
validate_key(api_key, resp) ==
    IF resp = "ok" THEN [some |-> TRUE, row |-> KeyTable[api_key]]
    ELSE [some |-> FALSE, row |-> [team_id |-> "", user_id |-> "", claude_name |-> NoName]]

\* A plausible slip: the name looked up as it was given.
vend_key_caseSensitive(ks, name) ==
    IF ks.st = "nofile" THEN NoKey
    ELSE IF ks.st = "corrupt" THEN NoKey
    ELSE DictGet(ks.keys, name, NoKey)

\* vend_key: NoKey stands for None
vend_key(ks, name) ==
    IF ks.st = "nofile" THEN NoKey
    ELSE IF ks.st = "corrupt" THEN NoKey       \* json.loads raises, caught
    ELSE DictGet(ks.keys, upper(name), NoKey)

\* connect, lines 301-315: the value of self.api_key once the sources have
\* been gone through; cur is self.api_key as the call finds it.
ResolveKey(cur, api_key, name, env, ks) ==
    IF api_key # NoKey THEN api_key
    ELSE LET k1 == IF name # NoName THEN DictGet(env.scoped, upper(name), NoKey)
                   ELSE cur
             k2 == IF k1 = NoKey THEN env.generic ELSE k1
         IN  IF k2 = NoKey /\ name # NoName THEN vend_key(ks, name) ELSE k2

\* self.connected after connect's validation: set on success, else left alone
ConnectedAfter(was, valid) == IF valid THEN TRUE ELSE was

\* connect: [ret |-> what it returns, s |-> the session afterwards,
\*           out |-> the validation calls made, each with its outcome]
connect(s, api_key, name, env, ks, resp) ==
    LET k == ResolveKey(s.api_key, api_key, name, env, ks) IN
    IF k = NoKey
    THEN [ret |-> FALSE, s |-> [s EXCEPT !.api_key = NoKey], out |-> <<>>]
    ELSE LET result == validate_key(k, resp) IN
         [ret |-> result.some,
          s   |-> IF result.some
                  THEN [s EXCEPT !.api_key = k,
                                 !.team_id = result.row.team_id,
                                 !.user_id = result.row.user_id,
                                 !.claude_name = result.row.claude_name,
                                 !.connected = ConnectedAfter(s.connected, TRUE)]
                  ELSE [s EXCEPT !.api_key = k,
                                 !.connected = ConnectedAfter(s.connected, FALSE)],
          out |-> <<resp>>]

\* _ensure_connected
\* A plausible slip: a second connect after the first one failed.
ensure_connected_retry(s, env, ks, resp) ==
    IF s.connected THEN [ret |-> TRUE, s |-> s, out |-> <<>>]
    ELSE IF connect(s, NoKey, NoName, env, ks, resp).ret
    THEN connect(s, NoKey, NoName, env, ks, resp)
    ELSE [connect(connect(s, NoKey, NoName, env, ks, resp).s, NoKey, NoName, env, ks, resp)
            EXCEPT !.out = connect(s, NoKey, NoName, env, ks, resp).out \o @]

ensure_connected(s, env, ks, resp) ==
    IF ~s.connected THEN connect(s, NoKey, NoName, env, ks, resp)
    ELSE [ret |-> TRUE, s |-> s, out |-> <<>>]

\* The response an auto-connect from session s would have to be given.
AutoKey(s, env, ks) == ResolveKey(s.api_key, NoKey, NoName, env, ks)


\* stock_key, lines 230-245: a requester key was given and its validation
\* did not come back 200 with a truthy body
RequesterRejected(requester_key, resp) == requester_key # NoKey /\ resp # "ok"

\* stock_key: [ret |-> what it returns, ks |-> the keystore afterwards,
\*             req |-> the validation calls made for the requester]
stock_key(ks, now, name, key, requester_key, resp) ==
    LET req == IF requester_key # NoKey THEN <<resp>> ELSE <<>> IN
    IF RequesterRejected(requester_key, resp)
    THEN [ret |-> FALSE, ks |-> ks, req |-> req]
    ELSE IF ks.st = "corrupt"
    THEN [ret |-> FALSE, ks |-> ks, req |-> req]     \* json.loads raises, caught
    ELSE LET keys == IF ks.st = "ok" THEN ks.keys ELSE KeystoreIdle.keys
         IN  [ret |-> TRUE,
              ks  |-> [st |-> "ok", keys |-> [keys EXCEPT ![upper(name)] = key],
                       updated |-> now],
              req |-> req]

\* help_buddy
help_buddy(s, env, ks, now, buddy_name, buddy_key, resp1, resp2) ==
    LET e == ensure_connected(s, env, ks, resp1) IN
    IF ~e.ret
    THEN [ret |-> FALSE, s |-> e.s, ks |-> ks, out |-> e.out, req |-> <<>>]
    ELSE LET st == stock_key(ks, now, buddy_name, buddy_key, e.s.api_key, resp2)
         IN  [ret |-> st.ret, s |-> e.s, ks |-> st.ks, out |-> e.out, req |-> st.req]

-----------------------------------------------------------------------------
(* SpecConnect: connect calls on one session, with and without arguments,  *)
(* under every setting of the environment and of the keystore.             *)

\* The response a validation of key k is given; "none" when no call is made.
RespFor(k) == IF k = NoKey THEN {"none"} ELSE Responses(k)

Connect(p, api_key, name, resp) ==
    LET k == ResolveKey(sess[p].api_key, api_key, name, environ, keystore)
        r == connect(sess[p], api_key, name, environ, keystore, resp)
    IN
    /\ resp \in RespFor(k)
    /\ sess' = [sess EXCEPT ![p] = r.s]
    /\ conRet' = [ConIdle EXCEPT !.op = "connect", !.ret = r.ret, !.arg = api_key,
                                 !.name = name, !.resolved = k, !.out = r.out]
    /\ UNCHANGED <<environ, keystore, clock>>
    /\ UNCHANGED <<rolesVars, settingsVars, backendVars, gateVars, claimVars, raceVars>>

AllResponses == {"ok", "empty", "non200", "transport", "none"}

ConnectArgs  == {NoKey, "cc_1", "cc_bad"}
ConnectNames == {NoName, <<"b","l","a","c","k">>}

\* A keystore file that holds entries
StockedKeystore(black, intolerant) ==
    [st |-> "ok", updated |-> 0,
     keys |-> [n \in KeyNames |-> IF n = N_BLACK THEN black ELSE intolerant]]
CorruptKeystore == [KeystoreIdle EXCEPT !.st = "corrupt"]

InitConnect ==
    /\ sess = SessIdle
    /\ environ \in { [generic |-> g, scoped |-> [n \in KeyNames |->
                         IF n = N_BLACK THEN b ELSE NoKey]] :
                     g \in {NoKey, "cc_3"}, b \in {NoKey, "cc_2"} }
    /\ keystore \in { KeystoreIdle, CorruptKeystore,
                      StockedKeystore("cc_4", NoKey), StockedKeystore(NoKey, "cc_1") }
    /\ clock = 0
    /\ conRet = ConIdle
    /\ RolesAtRest /\ SettingsAtRest /\ BackendAtRest /\ GateAtRest /\ ClaimAtRest /\ RaceAtRest

NextConnect ==
    \E api_key \in ConnectArgs, name \in ConnectNames, resp \in AllResponses :
        Connect("p1", api_key, name, resp)

SpecConnect == InitConnect /\ [][NextConnect]_vars

\* C4: a connect whose validation returns 200 with a non-empty result
\* returns true, sets connected and stores team_id, user_id and identity_name
\* from that result; on any other outcome (non-200, empty result, transport
\* failure, also no credential) it returns false and connected is false
\* afterwards - also when the session was connected before the call.
C4_ConnectSetsConnectedToItsOutcome ==
    conRet.op = "connect" =>
        IF conRet.out = <<"ok">>
        THEN /\ conRet.ret
             /\ sess["p1"].connected
             /\ sess["p1"].team_id = KeyTable[conRet.resolved].team_id
             /\ sess["p1"].user_id = KeyTable[conRet.resolved].user_id
             /\ sess["p1"].claude_name = KeyTable[conRet.resolved].claude_name
        ELSE /\ ~conRet.ret
             /\ ~sess["p1"].connected

\* The first populated source, in the order the documentation of connect
\* gives: the argument, CLAUDE_COLAB_KEY_<NAME>, CLAUDE_COLAB_KEY, the
\* keystore entry of the name.
FirstPopulated(api_key, name) ==
    LET scoped == IF name # NoName /\ upper(name) \in DOMAIN environ.scoped
                  THEN environ.scoped[upper(name)] ELSE NoKey
        stored == IF name # NoName /\ keystore.st = "ok" /\ upper(name) \in DOMAIN keystore.keys
                  THEN keystore.keys[upper(name)] ELSE NoKey
    IN  IF api_key # NoKey THEN api_key
        ELSE IF scoped # NoKey THEN scoped
        ELSE IF environ.generic # NoKey THEN environ.generic
        ELSE stored

\* C8: connect validates the first populated source in the order explicit
\* argument, identity-scoped environment variable, generic environment
\* variable, keystore entry; with none populated it fails with no credential
\* found (and validates nothing).
C8_ConnectResolvesFirstPopulatedSource ==
    conRet.op = "connect" =>
        /\ conRet.resolved = FirstPopulated(conRet.arg, conRet.name)
        /\ FirstPopulated(conRet.arg, conRet.name) = NoKey =>
               (~conRet.ret /\ conRet.out = <<>>)

\* C33: after any sequence of connect calls, a connected session holds the
\* credential whose validation gave it its identity_name, team_id and
\* user_id; a failed connect leaves no connected session with a credential
\* that was not validated.
C33_ConnectedSessionHoldsItsValidatedCredential ==
    sess["p1"].connected =>
        /\ sess["p1"].api_key \in DOMAIN KeyTable
        /\ sess["p1"].claude_name = KeyTable[sess["p1"].api_key].claude_name
        /\ sess["p1"].team_id = KeyTable[sess["p1"].api_key].team_id
        /\ sess["p1"].user_id = KeyTable[sess["p1"].api_key].user_id

\* C34: the credential a connect call resolves depends on its arguments,
\* the environment and the keystore only: the session p1, whatever connect
\* calls it made before, validates the credential that the session p2,
\* which made none, would validate in the same call.
C34_ResolvedCredentialIgnoresEarlierCalls ==
    [][conRet'.op = "connect" =>
          conRet'.resolved = ResolveKey(sess["p2"].api_key, conRet'.arg, conRet'.name,
                                        environ, keystore)]_vars


-----------------------------------------------------------------------------
(* SpecKeystore: stock_key and help_buddy on the keystore, between connect *)
(* calls and ticks of the clock.                                           *)

MaxClock == 1

StockNames == {N_BLACK, <<"i","n","t","o","l","e","r","a","n","t">>}
StockKeys  == {"cc_4"}
Requesters == {NoKey, "cc_1", "cc_bad"}

StockKey(name, key, requester_key, resp) ==
    LET r == stock_key(keystore, clock, name, key, requester_key, resp) IN
    /\ resp \in RespFor(requester_key)
    /\ keystore' = r.ks
    /\ conRet' = [ConIdle EXCEPT !.op = "stock", !.ret = r.ret, !.name = name,
                                 !.key = key, !.requester = requester_key,
                                 !.req = r.req, !.prior = vend_key(keystore, name)]
    /\ UNCHANGED <<sess, environ, clock>>
    /\ UNCHANGED <<rolesVars, settingsVars, backendVars, gateVars, claimVars, raceVars>>

HelpBuddy(p, buddy_name, buddy_key, resp1, resp2) ==
    LET e == ensure_connected(sess[p], environ, keystore, resp1)
        r == help_buddy(sess[p], environ, keystore, clock, buddy_name, buddy_key,
                        resp1, resp2)
    IN
    /\ resp1 \in (IF sess[p].connected THEN {"none"}
                  ELSE RespFor(AutoKey(sess[p], environ, keystore)))
    /\ resp2 \in (IF e.ret THEN RespFor(e.s.api_key) ELSE {"none"})
    /\ sess' = [sess EXCEPT ![p] = r.s]
    /\ keystore' = r.ks
    /\ conRet' = [ConIdle EXCEPT !.op = "help_buddy", !.ret = r.ret,
                                 !.name = buddy_name, !.key = buddy_key,
                                 !.requester = e.s.api_key,
                                 !.out = r.out, !.req = r.req]
    /\ UNCHANGED <<environ, clock>>
    /\ UNCHANGED <<rolesVars, settingsVars, backendVars, gateVars, claimVars, raceVars>>

\* datetime.now() moves on
Tick ==
    /\ clock < MaxClock
    /\ clock' = clock + 1
    /\ UNCHANGED <<sess, environ, keystore, conRet>>
    /\ UNCHANGED <<rolesVars, settingsVars, backendVars, gateVars, claimVars, raceVars>>

InitKeystore ==
    /\ sess = SessIdle
    /\ environ = EnvironIdle
    /\ keystore \in {KeystoreIdle, CorruptKeystore, StockedKeystore(NoKey, "cc_4")}
    /\ clock = 0
    /\ conRet = ConIdle
    /\ RolesAtRest /\ SettingsAtRest /\ BackendAtRest /\ GateAtRest /\ ClaimAtRest /\ RaceAtRest

NextKeystore ==
    \/ \E name \in StockNames, key \in StockKeys, rk \in Requesters,
          resp \in AllResponses : StockKey(name, key, rk, resp)
    \/ \E name \in StockNames, key \in StockKeys,
          resp1 \in AllResponses, resp2 \in AllResponses :
              HelpBuddy("p1", name, key, resp1, resp2)
    \/ \E api_key \in {NoKey, "cc_1"}, name \in {NoName, N_INTOLERANT},
          resp \in AllResponses : Connect("p1", api_key, name, resp)
    \/ Tick

SpecKeystore == InitKeystore /\ [][NextKeystore]_vars

\* The step is a stock_key call.
StockStep ==
    \E name \in StockNames, key \in StockKeys, rk \in Requesters,
       resp \in AllResponses : StockKey(name, key, rk, resp)

\* C9: stock with a requester credential returns false and leaves the
\* keystore unchanged when the validation returns non-200, a falsy body or
\* fails at transport level; it returns true, with the entry for the name
\* present and the last-updated stamp rewritten, when the validation returns
\* 200 with a truthy body.
C9_StockFollowsRequesterValidation ==
    [][(StockStep /\ conRet'.requester # NoKey) =>
        IF conRet'.req = <<"ok">>
        THEN /\ conRet'.ret
             /\ keystore'.st = "ok"
             /\ keystore'.keys[upper(conRet'.name)] = conRet'.key
             /\ keystore'.updated = clock
        ELSE /\ ~conRet'.ret
             /\ keystore' = keystore
      ]_vars

\* C10: no stock or help_buddy call changes the keystore unless a validation
\* of the requester's credential succeeded during that call.
C10_KeystoreChangesOnlyAfterValidation ==
    [][keystore' # keystore =>
        /\ conRet'.op \in {"stock", "help_buddy"}
        /\ conRet'.req = <<"ok">>
      ]_vars


-----------------------------------------------------------------------------
(* Chat, mentions, tasks and the checkpoint gate.                          *)

\* get_mentions' default: limit=20
DefaultLimit == 20

Reverse(q) == [i \in 1..Len(q) |-> q[Len(q) + 1 - i]]
Take(q, n) == SubSeq(q, 1, IF n < Len(q) THEN n ELSE Len(q))

\* A plausible slip: a match only where the text ends or a space follows.
IsSubstring_wholeWord(sub, text) ==
    \E i \in 0..(Len(text) - Len(sub)) :
        /\ SubSeq(text, i + 1, i + Len(sub)) = sub
        /\ (i + Len(sub) = Len(text) \/ text[i + Len(sub) + 1] = " ")

\* `sub in text` on strings
IsSubstring(sub, text) ==
    \E i \in 0..(Len(text) - Len(sub)) : SubSeq(text, i + 1, i + Len(sub)) = sub

\* rpc/get_chat: the newest p_limit messages of the project, newest first
rpc_get_chat(log, project_slug, limit) ==
    Take(SelectSeq(log, LAMBDA msg : msg.project_slug = project_slug), limit)

\* get_chat, lines 733-748 (the session is connected): the messages oldest
\* first on 200, [] on any other status and on an exception
get_chat(s, log, limit, resp) ==
    IF resp = "ok" THEN Reverse(rpc_get_chat(log, s.project_slug, limit)) ELSE <<>>

\* get_mentions, lines 763-765
get_mentions(s, log, limit, resp) ==
    LET mention_tag == <<"@">> \o s.claude_name
    IN  SelectSeq(get_chat(s, log, limit, resp),
                  LAMBDA msg : IsSubstring(mention_tag, msg.message))

\* GET shared_tasks with the filters of the query string: team_id=eq.<team>,
\* deleted_at=is.null when asked for, status=eq.<status> when given.
rest_get_tasks(tbl, params) ==
    SelectSeq(tbl, LAMBDA t : /\ t.team_id = params.team_id
                              /\ (params.live_only => ~t.deleted)
                              /\ (params.status # "" => t.status = params.status))

\* A plausible slip: the deleted_at filter left out of the query.
TaskParams_withDeleted(s, status) ==
    [team_id |-> s.team_id, live_only |-> FALSE, status |-> status]

\* get_tasks, lines 502-508: team_id=eq.<self.team_id>, deleted_at=is.null,
\* and status=eq.<status> `if status:`
TaskParams(s, status) ==
    [team_id |-> s.team_id, live_only |-> TRUE, status |-> status]

\* A plausible slip: the reply used without a look at how the request went.
get_tasks_unchecked(s, tbl, status, resp) == rest_get_tasks(tbl, TaskParams(s, status))

\* get_tasks, lines 501-521 (the session is connected)
get_tasks(s, tbl, status, resp) ==
    IF resp = "ok" THEN rest_get_tasks(tbl, TaskParams(s, status)) ELSE <<>>

Blocker(n, what) == [n |-> n, what |-> what]
NotConnected == Blocker(0, "Not connected")

\* A plausible slip: the task check skipped once the mention check failed.
RunTaskCheck_shortCircuit(check_tasks, passed) == check_tasks /\ passed

\* checkpoint, line 1121: `if check_tasks:`, whatever the mention check found
RunTaskCheck(check_tasks, passed) == check_tasks

\* A plausible slip: the checks run although the session is not connected.
GateOpen_always(connected) == TRUE

\* checkpoint, line 1107: the checks run only behind _ensure_connected
GateOpen(connected) == connected

\* checkpoint, lines 1113-1118: the mention check on the result so far
MentionCheck(result, mentions) ==
    IF Len(mentions) > 0
    THEN [result EXCEPT !.passed = FALSE, !.mentions = Len(mentions),
             !.blockers = Append(@, Blocker(Len(mentions), "unread mentions"))]
    ELSE result

\* checkpoint, lines 1121-1127: the task check on the result so far
TaskCheck(result, my_tasks) ==
    IF Len(my_tasks) > 0
    THEN [result EXCEPT !.passed = FALSE, !.tasks = Len(my_tasks),
             !.blockers = Append(@, Blocker(Len(my_tasks), "pending tasks"))]
    ELSE result

\* checkpoint, line 1123: the pending tasks assigned to the session's identity
MyTasks(s, pending) == SelectSeq(pending, LAMBDA t : t.assigned_to = s.claude_name)

\* checkpoint, lines 1130-1140: [s |-> the session afterwards, raised |->
\*   RuntimeError raised, result |-> the result dict (when raised: as it stood
\*   at the raise), carried |-> the blockers in the RuntimeError's message,
\*   out |-> the validation calls of the auto-connect, chatFetches /
\*   taskFetches |-> the rpc/get_chat and GET shared_tasks requests sent]
\* A plausible slip: a hard failure also drops the connection.
Report_dropsSession(e, hard, result, chatFetches, taskFetches) ==
    [s |-> [e.s EXCEPT !.connected = @ /\ ~(hard /\ ~result.passed)],
     raised |-> (hard /\ ~result.passed), result |-> result,
     carried |-> IF hard /\ ~result.passed THEN result.blockers ELSE <<>>,
     out |-> e.out, chatFetches |-> chatFetches, taskFetches |-> taskFetches]

Report(e, hard, result, chatFetches, taskFetches) ==
    [s |-> e.s, raised |-> (hard /\ ~result.passed), result |-> result,
     carried |-> IF hard /\ ~result.passed THEN result.blockers ELSE <<>>,
     out |-> e.out, chatFetches |-> chatFetches, taskFetches |-> taskFetches]

\* checkpoint, lines 1112-1127, the result after the mention check given
ChecksFrom(e, tbl, hard, check_mentions, check_tasks, respTasks, r1) ==
    Report(e, hard,
           TaskCheck(r1, IF RunTaskCheck(check_tasks, r1.passed)
                         THEN MyTasks(e.s, get_tasks(e.s, tbl, "pending", respTasks))
                         ELSE <<>>),
           IF check_mentions THEN 1 ELSE 0,
           IF RunTaskCheck(check_tasks, r1.passed) THEN 1 ELSE 0)

\* checkpoint, lines 1105-1140, the outcome e of _ensure_connected given
CheckpointFrom(e, log, tbl, hard, check_mentions, check_tasks, respChat, respTasks) ==
    IF ~GateOpen(e.ret)
    THEN [s |-> e.s, raised |-> FALSE,
          result |-> [NoResult EXCEPT !.passed = FALSE, !.blockers = <<NotConnected>>],
          carried |-> <<>>, out |-> e.out, chatFetches |-> 0, taskFetches |-> 0]
    ELSE ChecksFrom(e, tbl, hard, check_mentions, check_tasks, respTasks,
                    MentionCheck(NoResult,
                                 IF check_mentions
                                 THEN get_mentions(e.s, log, DefaultLimit, respChat)
                                 ELSE <<>>))

checkpoint(s, env, ks, log, tbl, hard, check_mentions, check_tasks, resp0, respChat, respTasks) ==
    CheckpointFrom(ensure_connected(s, env, ks, resp0), log, tbl, hard,
                   check_mentions, check_tasks, respChat, respTasks)


-----------------------------------------------------------------------------
(* SpecGate: checkpoint calls, soft and hard, on a session that may or may *)
(* not be connected, over a chat log and a task table other agents filled. *)

MaxChat == 2
MaxMine == 2

FetchResponses == {"ok", "non200", "transport"}
FetchFor(sent) == IF sent THEN FetchResponses ELSE {"none"}

\* What a checkpoint call leaves to look at: its arguments, the state of the
\* session before it, the answers it was given and its outcome r.
CallRecord(hard, check_mentions, check_tasks, was, resp0, respChat, respTasks, r) ==
    [op |-> "checkpoint", hard |-> hard,
     check_mentions |-> check_mentions, check_tasks |-> check_tasks,
     was |-> was, out |-> r.out,
     resp0 |-> resp0, respChat |-> respChat, respTasks |-> respTasks,
     raised |-> r.raised, result |-> r.result, carried |-> r.carried,
     chatFetches |-> r.chatFetches, taskFetches |-> r.taskFetches]

CheckpointDone(p, r) == sess' = [sess EXCEPT ![p] = r.s]

\* The fetches a call sends once _ensure_connected came out as connected.
Fetching(connected, check) == FetchFor(connected /\ check)

\* One checkpoint call of process p. resp0 is the answer to the auto-connect's
\* validation request, respChat and respTasks the answers to the two fetches.
Checkpoint(p, hard, check_mentions, check_tasks) ==
    \E resp0 \in (IF sess[p].connected THEN {"none"}
                  ELSE RespFor(AutoKey(sess[p], environ, keystore))) :
      \E respChat \in Fetching(ensure_connected(sess[p], environ, keystore, resp0).ret,
                               check_mentions),
         respTasks \in Fetching(ensure_connected(sess[p], environ, keystore, resp0).ret,
                                check_tasks) :
        /\ CheckpointDone(p, checkpoint(sess[p], environ, keystore, chat, tasks, hard,
                             check_mentions, check_tasks, resp0, respChat, respTasks))
        /\ cpRet' = CallRecord(hard, check_mentions, check_tasks, sess[p].connected,
                        resp0, respChat, respTasks,
                        checkpoint(sess[p], environ, keystore, chat, tasks, hard,
                             check_mentions, check_tasks, resp0, respChat, respTasks))
        /\ UNCHANGED <<environ, keystore, clock, conRet, opRet>>
        /\ UNCHANGED <<rolesVars, settingsVars, backendVars, claimVars, raceVars>>

\* The chat logs, newest first: empty, or k <= MaxChat messages that mention
\* @BLACK between three that do not (no mention; @black in lower case; a
\* mention of @BLACK in another project).
Message(id, message, project_slug) ==
    [id |-> id, author |-> N_OLLAMA, message |-> message, project_slug |-> project_slug]
T_MENTION == <<"@","B","L","A","C","K"," ","g","o">>
T_LOWER   == <<"@","b","l","a","c","k"," ","g","o">>
T_PLAIN   == <<"h","i">>
ChatLog(k) ==
    <<Message(k + 3, T_PLAIN, DefaultProject)>>
    \o [i \in 1..k |-> Message(k + 3 - i, T_MENTION, DefaultProject)]
    \o <<Message(2, T_MENTION, "other"), Message(1, T_LOWER, DefaultProject)>>
ChatLogs == {<<>>} \cup {ChatLog(k) : k \in 0..MaxChat}

\* The task tables: empty, or k <= MaxMine pending tasks of BLACK's in team
\* T1 before four tasks that are not (of team T2; deleted; claimed; assigned
\* to OLLAMA).
Task(id, status, assigned_to, claimed_by, team_id, deleted) ==
    [id |-> id, status |-> status, assigned_to |-> assigned_to,
     claimed_by |-> claimed_by, team_id |-> team_id, deleted |-> deleted,
     result |-> ""]
OthersTasks ==
    << Task(4, "pending", N_BLACK, NoName, "T2", FALSE),
       Task(3, "pending", N_BLACK, NoName, "T1", TRUE),
       Task(2, "claimed", N_BLACK, N_BLACK, "T1", FALSE),
       Task(1, "pending", N_OLLAMA, NoName, "T1", FALSE) >>
MineTasks(k) ==
    [i \in 1..k |-> Task(5 + k - i, "pending", N_BLACK, NoName, "T1", FALSE)]
TaskTables == {<<>>} \cup {MineTasks(k) \o OthersTasks : k \in 0..MaxMine}

InitGate ==
    /\ sess = SessIdle
    /\ environ \in {[EnvironIdle EXCEPT !.generic = k] : k \in {NoKey, "cc_1", "cc_3"}}
    /\ keystore = KeystoreIdle
    /\ clock = 0
    /\ conRet = ConIdle
    /\ chat \in ChatLogs
    /\ tasks \in TaskTables
    /\ GateAtRest
    /\ RolesAtRest /\ SettingsAtRest /\ ClaimAtRest /\ RaceAtRest

NextGate ==
    \E hard \in BOOLEAN, check_mentions \in BOOLEAN, check_tasks \in BOOLEAN :
        Checkpoint("p1", hard, check_mentions, check_tasks)

SpecGate == InitGate /\ [][NextGate]_vars

\* The call cpRet reports ran on a connected session: it was connected
\* before, or the call's auto-connect succeeded.
ConnectedCall == cpRet.op = "checkpoint" /\ (cpRet.was \/ cpRet.out = <<"ok">>)
FailedConnectCall == cpRet.op = "checkpoint" /\ ~cpRet.was /\ cpRet.out # <<"ok">>

\* What the backend holds for the identity of p1: the messages of its
\* project that mention it, the pending tasks of its team assigned to it.
MentionsHeld ==
    Cardinality({i \in DOMAIN chat :
        /\ chat[i].project_slug = sess["p1"].project_slug
        /\ IsSubstring(<<"@">> \o sess["p1"].claude_name, chat[i].message)})
TasksHeld ==
    Cardinality({i \in DOMAIN tasks :
        /\ tasks[i].team_id = sess["p1"].team_id /\ ~tasks[i].deleted
        /\ tasks[i].status = "pending"
        /\ tasks[i].assigned_to = sess["p1"].claude_name})
MentionsFound == IF cpRet.check_mentions /\ cpRet.respChat = "ok" THEN MentionsHeld ELSE 0
TasksFound    == IF cpRet.check_tasks /\ cpRet.respTasks = "ok" THEN TasksHeld ELSE 0
BlockersFound ==
    (IF MentionsFound > 0 THEN <<Blocker(MentionsFound, "unread mentions")>> ELSE <<>>)
    \o (IF TasksFound > 0 THEN <<Blocker(TasksFound, "pending tasks")>> ELSE <<>>)

\* The soft call's outcome against the record of the hard call.
SoftCallFails(soft, hardCall) ==
    ~soft.result.passed =>
        /\ ~soft.raised
        /\ hardCall.raised
        /\ hardCall.carried = soft.result.blockers

\* C5: whenever the soft call would return passed = false with blockers B,
\* the same call made hard raises, and the failure carries exactly B; the
\* session that is not connected included.
C5_HardCallRaisesWhatSoftCallReturns ==
    [][(cpRet'.op = "checkpoint" /\ cpRet'.hard) =>
        SoftCallFails(checkpoint(sess["p1"], environ, keystore, chat, tasks, FALSE,
                                 cpRet'.check_mentions, cpRet'.check_tasks,
                                 cpRet'.resp0, cpRet'.respChat, cpRet'.respTasks),
                      cpRet')
      ]_vars

\* C6: on a connected session the two checks are evaluated independently:
\* mentions and tasks are the counts each enabled check found (0 when the
\* check is off), blockers has one entry per enabled check with a non-zero
\* count, the task fetch is sent whenever check_tasks is set, and passed
\* holds iff there is no blocker.
C6_ChecksAreIndependent ==
    ConnectedCall =>
        /\ cpRet.result.mentions = MentionsFound
        /\ cpRet.result.tasks = TasksFound
        /\ cpRet.result.blockers = BlockersFound
        /\ cpRet.result.passed = (cpRet.result.blockers = <<>>)
        /\ cpRet.chatFetches = (IF cpRet.check_mentions THEN 1 ELSE 0)
        /\ cpRet.taskFetches = (IF cpRet.check_tasks THEN 1 ELSE 0)

\* Both checks enabled found something each: two mentions and one task.
C6_Witness ==
    /\ ConnectedCall /\ ~cpRet.hard
    /\ cpRet.check_mentions /\ cpRet.check_tasks
    /\ cpRet.result.mentions = 2 /\ cpRet.result.tasks = 1
    /\ Len(cpRet.result.blockers) = 2
    /\ ~cpRet.result.passed

\* C7: a call on a session that is not connected and whose auto-connect
\* fails returns passed = false, blockers = ["Not connected"], mentions = 0
\* and tasks = 0, and sends no chat fetch and no task fetch, whatever the
\* check flags.
C7_NotConnectedFailsAtOnce ==
    FailedConnectCall =>
        /\ ~cpRet.result.passed
        /\ cpRet.result.blockers = <<NotConnected>>
        /\ cpRet.result.mentions = 0
        /\ cpRet.result.tasks = 0
        /\ cpRet.chatFetches = 0
        /\ cpRet.taskFetches = 0

\* The auto-connect was tried and refused, with both checks asked for and
\* mentions and tasks waiting.
C7_Witness ==
    /\ FailedConnectCall /\ cpRet.out = <<"non200">> /\ ~sess["p1"].connected
    /\ cpRet.check_mentions /\ cpRet.check_tasks
    /\ Len(chat) > 3 /\ Len(tasks) > 4
    /\ cpRet.result.blockers = <<NotConnected>>
    /\ cpRet.chatFetches = 0 /\ cpRet.taskFetches = 0

\* What a checkpoint call has no business with: the tasks, the keystore and
\* the settings documents.
StoresKept == tasks' = tasks /\ keystore' = keystore /\ docs' = docs

\* C30 as stated: a checkpoint call, whatever the state of the session and
\* its arguments, leaves the session, the tasks, the keystore and the
\* settings documents as they were.
C30_CheckpointChangesNothing ==
    [][NextGate => (sess' = sess /\ StoresKept)]_vars

\* C30: a checkpoint call leaves the tasks, the keystore, the settings
\* documents and the session's project as they were, and a session that was
\* connected before the call unchanged in every field; on a session that was
\* not connected its auto-connect may set the credential, the identity, the
\* team, the user and the connected flag.
C30_CheckpointChangesOnlyAnUnconnectedSession ==
    [][NextGate =>
         /\ StoresKept
         /\ \A p \in Procs : sess'[p].project_slug = sess[p].project_slug
         /\ \A p \in Procs : sess[p].connected => sess'[p] = sess[p]]_vars

\* A hard checkpoint on a session that was connected before it failed on
\* what it found and raised; the session is still connected.
C30_Witness ==
    /\ cpRet.op = "checkpoint" /\ cpRet.was /\ cpRet.hard /\ cpRet.raised
    /\ sess["p1"].connected /\ sess["p1"].api_key # NoKey

\* A check of the call cpRet reports could not consult the backend: it was
\* asked for and its fetch failed (transport failure or non-200).
FetchFailed(asked, resp) == asked /\ resp \in {"non200", "transport"}
FetchSkippedOrFailed(asked, resp) == ~asked \/ FetchFailed(asked, resp)

\* C35: on a connected session a mention fetch that fails counts as zero
\* mentions and a task fetch that fails as zero tasks; a checkpoint none of
\* whose checks got an answer returns passed = true with no blockers, and
\* with hard = true does not raise.
C35_FailedFetchCountsAsNothingFound ==
    ConnectedCall =>
        /\ FetchFailed(cpRet.check_mentions, cpRet.respChat) => cpRet.result.mentions = 0
        /\ FetchFailed(cpRet.check_tasks, cpRet.respTasks) => cpRet.result.tasks = 0
        /\ (/\ FetchSkippedOrFailed(cpRet.check_mentions, cpRet.respChat)
            /\ FetchSkippedOrFailed(cpRet.check_tasks, cpRet.respTasks))
           => (cpRet.result.passed /\ cpRet.result.blockers = <<>> /\ ~cpRet.raised)

\* A hard checkpoint with both checks on a connected session: BLACK has
\* mentions in the chat and pending tasks in the table, both fetches failed,
\* and the call passed without raising.
C35_Witness ==
    /\ ConnectedCall /\ cpRet.hard /\ cpRet.check_mentions /\ cpRet.check_tasks
    /\ cpRet.respChat = "transport" /\ cpRet.respTasks = "non200"
    /\ sess["p1"].claude_name = N_BLACK
    /\ Len(chat) > 3 /\ Len(tasks) > 4
    /\ cpRet.result = NoResult /\ ~cpRet.raised

-----------------------------------------------------------------------------
(* SpecClaim: connected agent processes claiming tasks concurrently. A     *)
(* claim_task call is a PATCH sent, the backend's handling of it, and the  *)
(* reply's arrival; requests and replies of different processes interleave *)
(* freely and either message may be lost in transport.                     *)

MaxClaims == 1

TaskIds == {1, 2}

NoCode == 0
Request(p, task_id, claimed_by) ==
    [kind |-> "req", p |-> p, id |-> task_id, claimed_by |-> claimed_by, code |-> NoCode]
Reply(req, code) == [req EXCEPT !.kind = "resp", !.code = code]
LogEntry(kind, p, task_id, ret, code, sent) ==
    [kind |-> kind, p |-> p, id |-> task_id, ret |-> ret, code |-> code, sent |-> sent,
     n |-> Cardinality({e \in claimLog : e.kind = kind /\ e.p = p}) + 1]
Returned(p) == {e \in claimLog : e.kind = "return" /\ e.p = p}

\* A backend without the guard: the claim of any task that is not deleted
\* is accepted and overwrites its status and claimant.
backend_claim_anyStatus(tbl, task_id, claimed_by) ==
    IF \E i \in DOMAIN tbl : tbl[i].id = task_id /\ ~tbl[i].deleted
    THEN [code |-> 204,
          tbl  |-> [i \in DOMAIN tbl |->
                      IF tbl[i].id = task_id
                      THEN [tbl[i] EXCEPT !.status = "claimed", !.claimed_by = claimed_by]
                      ELSE tbl[i]]]
    ELSE [code |-> 409, tbl |-> tbl]

\* The backend's PATCH shared_tasks?id=eq.<id> {status: claimed, claimed_by}:
\* it accepts the claim of a pending task that is not deleted with 204 and
\* refuses any other with 409, the table unchanged.
backend_claim(tbl, task_id, claimed_by) ==
    IF \E i \in DOMAIN tbl :
          tbl[i].id = task_id /\ tbl[i].status = "pending" /\ ~tbl[i].deleted
    THEN [code |-> 204,
          tbl  |-> [i \in DOMAIN tbl |->
                      IF tbl[i].id = task_id
                      THEN [tbl[i] EXCEPT !.status = "claimed", !.claimed_by = claimed_by]
                      ELSE tbl[i]]]
    ELSE [code |-> 409, tbl |-> tbl]

\* A plausible slip: every reply short of a server error taken for success.
ClaimResult_notServerError(code) == code < 500

\* claim_task, line 578: resp.status_code in [200, 204]
ClaimResult(code) == code \in {200, 204}

\* A plausible slip: the claim sent only for a task that is pending.
SendsClaim_pendingOnly(connected, tbl, task_id) ==
    /\ connected
    /\ \E i \in DOMAIN tbl : tbl[i].id = task_id /\ tbl[i].status = "pending"

\* claim_task, lines 564-568: the one condition under which the PATCH is
\* sent is _ensure_connected(); the task is not looked at.
SendsClaim(connected, tbl, task_id) == connected

\* claim_task, lines 564-576: not connected and no auto-connect -> False at
\* once; else the PATCH is sent, stamping the session's identity.
ClaimSend(p, task_id) ==
    LET k == IF sess[p].connected THEN NoKey ELSE AutoKey(sess[p], environ, keystore) IN
    \E resp0 \in RespFor(k) :
      LET e == ensure_connected(sess[p], environ, keystore, resp0) IN
      /\ pc[p] = "idle"
      /\ Cardinality(Returned(p)) < MaxClaims
      /\ sess' = [sess EXCEPT ![p] = e.s]
      /\ IF SendsClaim(e.ret, tasks, task_id)
         THEN /\ net' = net \cup {Request(p, task_id, e.s.claude_name)}
              /\ pc' = [pc EXCEPT ![p] = "sent"]
              /\ UNCHANGED claimLog
         ELSE /\ claimLog' = claimLog \cup
                    {LogEntry("return", p, task_id, FALSE, NoCode, FALSE)}
              /\ UNCHANGED <<net, pc>>
      /\ UNCHANGED <<environ, keystore, clock, conRet>>
      /\ UNCHANGED <<rolesVars, settingsVars, backendVars, gateVars, raceVars>>

\* The backend handles one request in flight: it decides the claim,
\* answering an accepted one with ok_code, or fails with 500 and changes
\* nothing.
BackendPatch(req, fails, ok_code) ==
    LET r == backend_claim(tasks, req.id, req.claimed_by) IN
    /\ req \in net /\ req.kind = "req"
    /\ IF fails
       THEN /\ net' = (net \ {req}) \cup {Reply(req, 500)}
            /\ UNCHANGED <<tasks, claimLog>>
       ELSE /\ net' = (net \ {req}) \cup
                        {Reply(req, IF r.code = 204 THEN ok_code ELSE r.code)}
            /\ tasks' = r.tbl
            /\ claimLog' = claimLog \cup
                 {LogEntry(IF r.code = 204 THEN "accept" ELSE "refuse",
                           req.p, req.id, TRUE, r.code, TRUE)}
    /\ UNCHANGED <<chat, pc>>
    /\ UNCHANGED <<rolesVars, settingsVars, sessionVars, gateVars, raceVars>>

\* claim_task, line 578: the reply arrives and the call returns.
ClaimReturn(p) ==
    \E m \in net :
      /\ m.kind = "resp" /\ m.p = p /\ pc[p] = "sent"
      /\ net' = net \ {m}
      /\ pc' = [pc EXCEPT ![p] = "idle"]
      /\ claimLog' = claimLog \cup
            {LogEntry("return", p, m.id, ClaimResult(m.code), m.code, TRUE)}
      /\ UNCHANGED <<rolesVars, settingsVars, sessionVars, backendVars, gateVars, raceVars>>

\* claim_task, lines 579-581: requests.patch raises (the request or the
\* reply is lost) and the call returns False.
ClaimFail(p) ==
    \E m \in net :
      /\ m.p = p /\ pc[p] = "sent"
      /\ net' = net \ {m}
      /\ pc' = [pc EXCEPT ![p] = "idle"]
      /\ claimLog' = claimLog \cup {LogEntry("return", p, m.id, FALSE, NoCode, TRUE)}
      /\ UNCHANGED <<rolesVars, settingsVars, sessionVars, backendVars, gateVars, raceVars>>

\* A session that connect(api_key) established.
ConnectedSession(api_key) ==
    connect(NewSession, api_key, NoName, EnvironIdle, KeystoreIdle, "ok").s

InitClaim ==
    /\ sess \in {[p \in Procs |-> IF p = "p1" THEN ConnectedSession("cc_1") ELSE s2] :
                    s2 \in {ConnectedSession("cc_2"), ConnectedSession("cc_3"), NewSession}}
    /\ environ = EnvironIdle
    /\ keystore = KeystoreIdle
    /\ clock = 0
    /\ conRet = ConIdle
    /\ chat = ChatIdle
    /\ tasks \in {<<Task(2, "pending", NoName, NoName, "T1", FALSE), t1>> :
                    t1 \in {Task(1, "pending", NoName, NoName, "T1", FALSE),
                            Task(1, "claimed", NoName, N_TKINTER, "T1", FALSE),
                            Task(1, "done", NoName, N_TKINTER, "T1", FALSE),
                            Task(1, "failed", NoName, N_TKINTER, "T1", FALSE),
                            Task(1, "pending", NoName, NoName, "T1", TRUE)}}
    /\ pc = PcIdle /\ net = NetIdle /\ claimLog = ClaimLogIdle
    /\ RolesAtRest /\ SettingsAtRest /\ GateAtRest /\ RaceAtRest

NextClaim ==
    \/ \E p \in Procs, task_id \in TaskIds : ClaimSend(p, task_id)
    \/ \E req \in net, fails \in BOOLEAN, ok_code \in {200, 204} :
            BackendPatch(req, fails, ok_code)
    \/ \E p \in Procs : ClaimReturn(p)
    \/ \E p \in Procs : ClaimFail(p)

SpecClaim == InitClaim /\ [][NextClaim]_vars

TaskById(task_id) == tasks[CHOOSE i \in DOMAIN tasks : tasks[i].id = task_id]
TrueReturns(task_id) == {e \in claimLog : e.kind = "return" /\ e.id = task_id /\ e.ret}
Accepts(task_id) == {e \in claimLog : e.kind = "accept" /\ e.id = task_id}

C19_ClaimReportsTheBackendStatus ==
    \A e \in claimLog :
        (e.kind = "return" /\ sess[e.p].connected) =>
            /\ e.sent
            /\ e.ret <=> e.code \in {200, 204}
            /\ e.code = NoCode => ~e.ret

\* A claim of task 1, which is done, was sent, refused with 409 and
\* returned false; a claim of task 2 was answered 200 and returned true.
C19_Witness ==
    /\ TaskById(1).status = "done"
    /\ \E e \in claimLog :
          /\ e.kind = "return" /\ e.id = 1 /\ sess[e.p].connected
          /\ e.sent /\ e.code = 409 /\ ~e.ret
    /\ \E f \in claimLog :
          /\ f.kind = "return" /\ f.id = 2 /\ f.code = 200 /\ f.ret

-----------------------------------------------------------------------------
(* SpecMentions: has_new_mentions (the spec's new_mentions_since) on chat  *)
(* logs that hold mentions inside and outside the window get_mentions      *)
(* scans.                                                                  *)

\* since_id = None
NoId == 0

\* A plausible slip: the scan stopped at the first id not below since_id.
ScanUntil_atOrAbove(mentions, since_id) ==
    LET hits == {i \in DOMAIN mentions : mentions[i].id >= since_id} IN
    IF hits = {} THEN mentions
    ELSE SubSeq(mentions, 1, (CHOOSE i \in hits : \A j \in hits : i <= j) - 1)

\* has_new_mentions, lines 781-786: the mentions before the first one whose
\* id is since_id, all of them when there is none
ScanUntil(mentions, since_id) ==
    LET hits == {i \in DOMAIN mentions : mentions[i].id = since_id} IN
    IF hits = {} THEN mentions
    ELSE SubSeq(mentions, 1, (CHOOSE i \in hits : \A j \in hits : i <= j) - 1)

\* has_new_mentions, lines 777-786, what get_mentions returned given
NewMentions(mentions, since_id) ==
    IF since_id = NoId THEN mentions ELSE ScanUntil(mentions, since_id)

\* get_mentions, lines 760-765, the outcome e of _ensure_connected given
MentionsFrom(e, log, limit, respChat) ==
    IF e.ret THEN get_mentions(e.s, log, limit, respChat) ELSE <<>>

\* has_new_mentions: [s |-> the session afterwards, out |-> the validation
\*   calls of the auto-connect, found |-> what get_mentions returned,
\*   list |-> what has_new_mentions returns]
has_new_mentions(s, env, ks, log, since_id, resp0, respChat) ==
    [s     |-> ensure_connected(s, env, ks, resp0).s,
     out   |-> ensure_connected(s, env, ks, resp0).out,
     found |-> MentionsFrom(ensure_connected(s, env, ks, resp0), log, DefaultLimit, respChat),
     list  |-> NewMentions(MentionsFrom(ensure_connected(s, env, ks, resp0), log,
                                        DefaultLimit, respChat), since_id)]

MentionsRecord(since_id, was, connected, r) ==
    [OpIdle EXCEPT !.op = "has_new_mentions", !.arg = since_id, !.was = was,
                   !.out = r.out, !.found = r.found, !.list = r.list,
                   !.sent = IF connected THEN <<"rpc/get_chat">> ELSE <<>>]

HasNewMentions(p, since_id) ==
    \E resp0 \in (IF sess[p].connected THEN {"none"}
                  ELSE RespFor(AutoKey(sess[p], environ, keystore))) :
      \E respChat \in Fetching(ensure_connected(sess[p], environ, keystore, resp0).ret, TRUE) :
        /\ CheckpointDone(p, has_new_mentions(sess[p], environ, keystore, chat,
                                              since_id, resp0, respChat))
        /\ opRet' = MentionsRecord(since_id, sess[p].connected,
                        ensure_connected(sess[p], environ, keystore, resp0).ret,
                        has_new_mentions(sess[p], environ, keystore, chat,
                                         since_id, resp0, respChat))
        /\ UNCHANGED <<environ, keystore, clock, conRet, cpRet>>
        /\ UNCHANGED <<rolesVars, settingsVars, backendVars, claimVars, raceVars>>

\* A chat log longer than the window: a mention of @BLACK (id 1), then
\* DefaultLimit newer messages of which the k newest mention @BLACK.
LongLog(k) ==
    [i \in 1..DefaultLimit |->
        Message(DefaultLimit + 2 - i, IF i <= k THEN T_MENTION ELSE T_PLAIN, DefaultProject)]
    \o <<Message(1, T_MENTION, DefaultProject)>>
MentionLogs == ChatLogs \cup {LongLog(k) : k \in 0..MaxChat}

\* get_mentions, lines 750-765: [s |-> the session afterwards, out |-> the
\* validation calls of the auto-connect, list |-> what it returns]
get_mentions_call(s, env, ks, log, limit, resp0, respChat) ==
    [s    |-> ensure_connected(s, env, ks, resp0).s,
     out  |-> ensure_connected(s, env, ks, resp0).out,
     list |-> MentionsFrom(ensure_connected(s, env, ks, resp0), log, limit, respChat)]

GetMentionsRecord(limit, was, connected, respChat, r) ==
    [OpIdle EXCEPT !.op = "get_mentions", !.arg = limit, !.was = was,
                   !.out = r.out, !.resp = respChat, !.list = r.list,
                   !.sent = IF connected THEN <<"rpc/get_chat">> ELSE <<>>]

GetMentions(p, limit) ==
    \E resp0 \in (IF sess[p].connected THEN {"none"}
                  ELSE RespFor(AutoKey(sess[p], environ, keystore))) :
      \E respChat \in Fetching(ensure_connected(sess[p], environ, keystore, resp0).ret, TRUE) :
        /\ CheckpointDone(p, get_mentions_call(sess[p], environ, keystore, chat,
                                               limit, resp0, respChat))
        /\ opRet' = GetMentionsRecord(limit, sess[p].connected,
                        ensure_connected(sess[p], environ, keystore, resp0).ret, respChat,
                        get_mentions_call(sess[p], environ, keystore, chat,
                                          limit, resp0, respChat))
        /\ UNCHANGED <<environ, keystore, clock, conRet, cpRet>>
        /\ UNCHANGED <<rolesVars, settingsVars, backendVars, claimVars, raceVars>>

\* A chat log in which the newest message mentions @BLACKOUT and the oldest
\* @BLACK.
T_OUT == <<"@","B","L","A","C","K","O","U","T"," ","g","o">>
OutLog ==
    << Message(3, T_OUT, DefaultProject), Message(2, T_PLAIN, DefaultProject),
       Message(1, T_MENTION, DefaultProject) >>

\* The limits given to get_mentions: windows of one and two messages, and
\* the default.
Limits == {1, 2, DefaultLimit}

\* The ids asked about: none, and those of the newest messages of ChatLog.
SinceIds == 0..(MaxChat + 3)

InitMentions ==
    /\ sess = SessIdle
    /\ environ \in {[EnvironIdle EXCEPT !.generic = k] : k \in {NoKey, "cc_1", "cc_3"}}
    /\ keystore = KeystoreIdle
    /\ clock = 0
    /\ conRet = ConIdle
    /\ chat \in MentionLogs \cup {OutLog}
    /\ tasks = TasksIdle
    /\ GateAtRest
    /\ RolesAtRest /\ SettingsAtRest /\ ClaimAtRest /\ RaceAtRest

NextMentions ==
    \/ \E since_id \in SinceIds : HasNewMentions("p1", since_id)
    \/ \E limit \in Limits : GetMentions("p1", limit)

SpecMentions == InitMentions /\ [][NextMentions]_vars

MentionsCall == opRet.op = "has_new_mentions"
FoundIds == {opRet.found[i].id : i \in DOMAIN opRet.found}

\* C11: asked about the id of a mention in the scanned window, the call
\* returns exactly the mentions newer than that one (none when it is the
\* newest), without that mention and without any older one.
C11_ReturnsMentionsNewerThanSince ==
    (MentionsCall /\ opRet.arg \in FoundIds) =>
        opRet.list = SelectSeq(opRet.found, LAMBDA msg : msg.id > opRet.arg)

\* C12: asked about no id, or about an id that no mention of the scanned
\* window has, the call returns all the mentions get_mentions returned, in
\* the same order.
C12_ReturnsAllMentionsWhenSinceUnknown ==
    (MentionsCall /\ opRet.arg \notin FoundIds) => opRet.list = opRet.found

\* The id asked about is that of a mention too old for the window, and of
\* a message that is no mention; two mentions are returned.
C12_Witness ==
    /\ MentionsCall /\ opRet.arg = 1 /\ Len(chat) > DefaultLimit
    /\ chat[Len(chat)].id = 1
    /\ IsSubstring(<<"@">> \o sess["p1"].claude_name, chat[Len(chat)].message)
    /\ Len(opRet.found) = 2 /\ opRet.list = opRet.found

\* The positions in the log, newest first, of the `limit` newest messages
\* of a project.
Window(log, project_slug, limit) ==
    {i \in DOMAIN log :
        /\ log[i].project_slug = project_slug
        /\ Cardinality({j \in 1..(i - 1) : log[j].project_slug = project_slug}) < limit}
Contains(text, sub) ==
    \E a \in 1..(Len(text) + 1), b \in 0..Len(text) :
        b - a + 1 = Len(sub) /\ \A k \in 1..Len(sub) : text[a + k - 1] = sub[k]
Tagged(log, project_slug, limit, tag) ==
    {log[i] : i \in {w \in Window(log, project_slug, limit) : Contains(log[w].message, tag)}}

\* C28: on a connected session whose chat fetch succeeded, get_mentions(limit)
\* returns the messages, among the `limit` newest of the session's project,
\* whose text contains "@" followed by the session's name anywhere (as part
\* of a longer word too), each once and oldest first, and no other message.
C28_MentionsAreSubstringMatchesOldestFirst ==
    (opRet.op = "get_mentions" /\ opRet.sent = <<"rpc/get_chat">> /\ opRet.resp = "ok") =>
        /\ {opRet.list[k] : k \in DOMAIN opRet.list}
             = Tagged(chat, sess["p1"].project_slug, opRet.arg,
                      <<"@">> \o sess["p1"].claude_name)
        /\ \A k \in DOMAIN opRet.list, l \in DOMAIN opRet.list :
              k < l => opRet.list[k].id < opRet.list[l].id

\* BLACK asked with the default limit and got the mention of @BLACK and,
\* after it, the newer message that mentions @BLACKOUT.
C28_Witness ==
    /\ opRet.op = "get_mentions" /\ opRet.arg = DefaultLimit /\ opRet.resp = "ok"
    /\ sess["p1"].claude_name = N_BLACK
    /\ Len(opRet.list) = 2
    /\ opRet.list[1].message = T_MENTION /\ opRet.list[2].message = T_OUT

-----------------------------------------------------------------------------
(* SpecOps: the operations of a session that talk to the backend, called   *)
(* on sessions that are connected, that can auto-connect, and that cannot. *)

\* The operations with one request of their own: the request, and how the
\* response becomes the result ("rpc": 200 with body true; "status": 200 or
\* 204; "list": the body on 200, [] otherwise).
OpTable ==
    [ share            |-> [request |-> "POST rpc/share_knowledge",  kind |-> "rpc"],
      search           |-> [request |-> "GET shared_knowledge",      kind |-> "list"],
      get_recent       |-> [request |-> "GET shared_knowledge",      kind |-> "list"],
      delete_knowledge |-> [request |-> "POST rpc/delete_knowledge", kind |-> "rpc"],
      update_knowledge |-> [request |-> "PATCH shared_knowledge",    kind |-> "status"],
      get_tasks        |-> [request |-> "GET shared_tasks",          kind |-> "list"],
      post_task        |-> [request |-> "POST rpc/post_task",        kind |-> "rpc"],
      claim_task       |-> [request |-> "PATCH shared_tasks",        kind |-> "status"],
      complete_task    |-> [request |-> "PATCH shared_tasks",        kind |-> "status"],
      delete_task      |-> [request |-> "POST rpc/delete_task",      kind |-> "rpc"],
      chat             |-> [request |-> "POST rpc/post_chat",        kind |-> "rpc"],
      get_chat         |-> [request |-> "POST rpc/get_chat",         kind |-> "list"],
      get_mentions     |-> [request |-> "POST rpc/get_chat",         kind |-> "list"],
      get_urgent       |-> [request |-> "POST rpc/get_urgent_messages", kind |-> "list"],
      who_online       |-> [request |-> "POST rpc/get_online_claudes",  kind |-> "list"] ]
SimpleOps == DOMAIN OpTable
TaskWrites == {"post_task", "claim_task", "complete_task", "delete_task"}

\* What the backend, or the transport, answers to a request.
OpResponses == {"200 true", "200 false", "200 list", "204", "409", "500", "transport"}
StatusOf(resp) ==
    CASE resp \in {"200 true", "200 false", "200 list"} -> 200
      [] resp = "204" -> 204
      [] resp = "409" -> 409
      [] resp = "500" -> 500
      [] OTHER -> 0

\* The value an operation returns for a response: "true" / "false", or
\* "list" (the body) / "empty" ([]).
ResultOf(kind, resp) ==
    CASE kind = "rpc"    -> IF resp = "200 true" THEN "true" ELSE "false"
      [] kind = "status" -> IF StatusOf(resp) \in {200, 204} THEN "true" ELSE "false"
      [] OTHER           -> IF StatusOf(resp) = 200 THEN "list" ELSE "empty"

\* `if not self._ensure_connected(): return False` / `return []`
NotConnectedValue(kind) == IF kind = "list" THEN "empty" ELSE "false"

\* A plausible slip: an operation that trusts the session and goes on.
Proceeds_unguarded(op, connected) == connected \/ op = "get_mentions"

\* The guard every operation opens with: `if not self._ensure_connected()`
Proceeds(op, connected) == connected

\* A plausible slip: the request sent again when the first attempt failed.
OwnRequests_retry(op, resp) ==
    IF ResultOf(OpTable[op].kind, resp) \in {"false", "empty"}
    THEN <<OpTable[op].request, OpTable[op].request>>
    ELSE <<OpTable[op].request>>

\* The requests an operation sends once it proceeds: its one request,
\* whatever the response.
OwnRequests(op, resp) == <<OpTable[op].request>>

\* An operation of SimpleOps, the outcome e of _ensure_connected given:
\* [s |-> the session afterwards, out |-> the validation requests of the
\*  auto-connect, sent |-> the operation's own requests, ret |-> its result]
SimpleOpFrom(e, op, resp) ==
    IF ~Proceeds(op, e.ret)
    THEN [s |-> e.s, out |-> e.out, sent |-> <<>>, raised |-> FALSE,
          ret |-> NotConnectedValue(OpTable[op].kind)]
    ELSE [s |-> e.s, out |-> e.out, sent |-> OwnRequests(op, resp), raised |-> FALSE,
          ret |-> ResultOf(OpTable[op].kind, resp)]

simple_op(s, env, ks, op, resp0, resp) ==
    SimpleOpFrom(ensure_connected(s, env, ks, resp0), op, resp)

\* _ensure_connected called by itself.
EnsureFrom(e) ==
    [s |-> e.s, out |-> e.out, sent |-> <<>>, raised |-> FALSE,
     ret |-> IF e.ret THEN "true" ELSE "false"]

OpRecord(op, was, resp, r) ==
    [OpIdle EXCEPT !.op = op, !.was = was, !.out = r.out, !.sent = r.sent,
                   !.resp = resp, !.ret = r.ret, !.raised = r.raised]

\* The answers a request gets when the operation proceeds to send it.
Answers(sent) == IF sent THEN OpResponses ELSE {"none"}

Call(p, op) ==
    \E resp0 \in (IF sess[p].connected THEN {"none"}
                  ELSE RespFor(AutoKey(sess[p], environ, keystore))) :
      \E resp \in Answers(ensure_connected(sess[p], environ, keystore, resp0).ret) :
        /\ CheckpointDone(p, simple_op(sess[p], environ, keystore, op, resp0, resp))
        /\ opRet' = OpRecord(op, sess[p].connected, resp,
                             simple_op(sess[p], environ, keystore, op, resp0, resp))
        /\ UNCHANGED <<environ, keystore, clock, conRet, cpRet>>
        /\ UNCHANGED <<rolesVars, settingsVars, backendVars, claimVars, raceVars>>

EnsureConnected(p) ==
    \E resp0 \in (IF sess[p].connected THEN {"none"}
                  ELSE RespFor(AutoKey(sess[p], environ, keystore))) :
        /\ CheckpointDone(p, ensure_connected(sess[p], environ, keystore, resp0))
        /\ opRet' = OpRecord("_ensure_connected", sess[p].connected, "none",
                             EnsureFrom(ensure_connected(sess[p], environ, keystore, resp0)))
        /\ UNCHANGED <<environ, keystore, clock, conRet, cpRet>>
        /\ UNCHANGED <<rolesVars, settingsVars, backendVars, claimVars, raceVars>>

\* _update_working_on, line 1022: working_on[:200]
WorkingOnLimit == 200

\* heartbeat's working_on: None, or a text (of characters 1, 2, 3, ...)
None == [some |-> FALSE, text |-> <<>>]
Some(text) == [some |-> TRUE, text |-> text]
Text(n) == [i \in 1..n |-> i]

\* JSON null and a JSON string
Null == [t |-> "null", v |-> <<>>]
Str(v) == [t |-> "str", v |-> v]

\* The responses to the requests that follow the presence upsert: rows, the
\* body false, a JSON object for a body, a server error, an exception.
FollowUps == {"200 list", "200 false", "200 object", "500", "transport"}
FollowUp(sent) == IF sent THEN FollowUps ELSE {"none"}

\* get_chat's view of a response: the list on 200 with a list for a body;
\* reversed() of any other body raises, which get_chat catches.
ChatAnswer(resp) == IF resp = "200 list" THEN "ok" ELSE "non200"

\* get_mentions raises where get_chat returned something whose elements are
\* no messages (the keys of a JSON object: str has no .get).
ScanRaises(respChat) == respChat = "200 object"

\* A plausible slip: the text sent as it was given.
PatchValue_untruncated(text) == IF text = <<>> THEN Null ELSE Str(text)

\* _update_working_on, line 1022: working_on[:200] if working_on else None
PatchValue(text) ==
    IF text = <<>> THEN Null
    ELSE Str(SubSeq(text, 1, IF Len(text) < WorkingOnLimit THEN Len(text)
                             ELSE WorkingOnLimit))

\* get_my_instance, lines 1336-1338, and _update_working_on, lines 1009-1015:
\* an instance with an id came back
InstanceFound(respInst) == respInst = "200 list"

\* _update_working_on, lines 1005-1026: get_my_instance's request, and the
\* PATCH with its value when an instance was found.
UpdateWorkingOn(text, respInst) ==
    [sent  |-> <<"GET claude_instances">>
               \o (IF InstanceFound(respInst) THEN <<"PATCH claude_instances">> ELSE <<>>),
     patch |-> IF InstanceFound(respInst) THEN <<PatchValue(text)>> ELSE <<>>]

NoUpdate == [sent |-> <<>>, patch |-> <<>>]

\* heartbeat, line 985: `if working_on is not None and result["ok"]:`
Updates(working_on, ok) == working_on.some /\ ok

\* A plausible slip: ok withdrawn when the mention scan failed.
HeartbeatOk_scanToo(respHb, respChat) ==
    respHb = "200 true" /\ respChat \in {"none", "200 list"}

\* heartbeat, line 982: resp.status_code == 200 and resp.json() == True;
\* nothing after it assigns result["ok"]
HeartbeatOk(respHb, respChat) == respHb = "200 true"

\* heartbeat, lines 992-1001: the mentions folded into the result; an
\* exception of get_mentions is passed over.
MentionsFolded(s, log, check_mentions, respChat) ==
    IF check_mentions /\ ~ScanRaises(respChat)
    THEN get_mentions(s, log, DefaultLimit, ChatAnswer(respChat))
    ELSE <<>>

\* heartbeat, lines 973-1003, on a connected session: u is what
\* _update_working_on did.
HeartbeatSent(check_mentions, u) ==
    <<"POST rpc/heartbeat">> \o u.sent
    \o (IF check_mentions THEN <<"POST rpc/get_chat">> ELSE <<>>)

\* heartbeat, lines 968-1003, the outcome e of _ensure_connected given;
\* ret is the ok field, found the mentions counted.
HeartbeatFrom(e, log, working_on, check_mentions, respHb, respInst, respChat) ==
    IF ~Proceeds("heartbeat", e.ret)
    THEN [s |-> e.s, out |-> e.out, sent |-> <<>>, raised |-> FALSE,
          ret |-> "false", found |-> <<>>, patch |-> <<>>]
    ELSE [s |-> e.s, out |-> e.out, raised |-> FALSE,
          sent |-> HeartbeatSent(check_mentions,
                       IF Updates(working_on, respHb = "200 true")
                       THEN UpdateWorkingOn(working_on.text, respInst) ELSE NoUpdate),
          patch |-> IF Updates(working_on, respHb = "200 true")
                    THEN UpdateWorkingOn(working_on.text, respInst).patch ELSE <<>>,
          ret |-> IF HeartbeatOk(respHb, respChat) THEN "true" ELSE "false",
          found |-> MentionsFolded(e.s, log, check_mentions, respChat)]

heartbeat(s, env, ks, log, working_on, check_mentions, resp0, respHb, respInst, respChat) ==
    HeartbeatFrom(ensure_connected(s, env, ks, resp0), log, working_on, check_mentions,
                  respHb, respInst, respChat)

HeartbeatRecord(working_on, check_mentions, was, resps, r) ==
    [OpIdle EXCEPT !.op = "heartbeat", !.flags = <<working_on, check_mentions>>,
                   !.was = was, !.out = r.out, !.sent = r.sent, !.resp = resps[1],
                   !.resps = resps, !.patch = r.patch,
                   !.ret = r.ret, !.raised = r.raised, !.found = r.found]

\* The texts given as working_on: none, the empty one, and texts shorter
\* than, as long as and longer than the limit.
WorkingOns == {None, Some(Text(0)), Some(Text(1)),
               Some(Text(WorkingOnLimit)), Some(Text(WorkingOnLimit + 1))}

Heartbeat(p, working_on, check_mentions, respInst, respPatch, respChat) ==
    \E resp0 \in (IF sess[p].connected THEN {"none"}
                  ELSE RespFor(AutoKey(sess[p], environ, keystore))) :
      \E respHb \in Answers(ensure_connected(sess[p], environ, keystore, resp0).ret) :
          /\ respInst \in FollowUp(working_on.some /\ respHb = "200 true")
          /\ respPatch \in FollowUp(InstanceFound(respInst))
          /\ respChat \in FollowUp(check_mentions /\ respHb # "none")
          /\ CheckpointDone(p, heartbeat(sess[p], environ, keystore, chat, working_on,
                                   check_mentions, resp0, respHb, respInst, respChat))
          /\ opRet' = HeartbeatRecord(working_on, check_mentions, sess[p].connected,
                          <<respHb, respInst, respPatch, respChat>>,
                          heartbeat(sess[p], environ, keystore, chat, working_on,
                                    check_mentions, resp0, respHb, respInst, respChat))
          /\ UNCHANGED <<environ, keystore, clock, conRet, cpRet>>
          /\ UNCHANGED <<rolesVars, settingsVars, backendVars, claimVars, raceVars>>

\* A request not sent, answered with rows, failed in transport.
SomeFollowUps == {"none", "200 list", "transport"}

InitOps ==
    /\ sess = SessIdle
    /\ environ \in {[EnvironIdle EXCEPT !.generic = k] : k \in {NoKey, "cc_1", "cc_bad"}}
    /\ keystore = KeystoreIdle
    /\ clock = 0
    /\ conRet = ConIdle
    /\ chat \in {ChatIdle, ChatLog(1)}
    /\ tasks = TasksIdle
    /\ GateAtRest
    /\ RolesAtRest /\ SettingsAtRest /\ ClaimAtRest /\ RaceAtRest

NextOps ==
    \/ \E op \in SimpleOps : Call("p1", op)
    \/ EnsureConnected("p1")
    \/ \E working_on \in {None, Some(Text(1))}, check_mentions \in BOOLEAN :
         \E respInst \in SomeFollowUps, respPatch \in SomeFollowUps,
            respChat \in SomeFollowUps :
            Heartbeat("p1", working_on, check_mentions, respInst, respPatch, respChat)
    \/ \E since_id \in {NoId, 1} : HasNewMentions("p1", since_id)
    \/ \E resp1 \in AllResponses, resp2 \in AllResponses :
            HelpBuddy("p1", N_INTOLERANT, "cc_4", resp1, resp2)

SpecOps == InitOps /\ [][NextOps]_vars

\* The last call ran on a connected session: it found the session connected,
\* or its auto-connect succeeded.
OpConnected == opRet.was \/ opRet.out = <<"ok">>

\* C17: a call made on a session that is not connected (it was not, and the
\* auto-connect failed) sends no request of its own; it returns false or an
\* empty result (heartbeat: ok = false and no mentions) and raises nothing;
\* help_buddy then validates no requester and stocks nothing.
C17_NothingSentUnlessConnected ==
    /\ (opRet.op # "none" /\ ~OpConnected) =>
        /\ opRet.sent = <<>>
        /\ ~opRet.raised
        /\ opRet.op \in SimpleOps => opRet.ret \in {"false", "empty"}
        /\ opRet.op = "heartbeat" => (opRet.ret = "false" /\ opRet.found = <<>>)
        /\ opRet.op = "has_new_mentions" => opRet.list = <<>>
    /\ (conRet.op = "help_buddy" /\ ~sess["p1"].connected) =>
        (~conRet.ret /\ conRet.req = <<>> /\ keystore = KeystoreIdle)

\* A task claim on a session whose auto-connect was refused: nothing sent,
\* false returned.
C17_Witness ==
    /\ ~sess["p1"].connected
    /\ opRet.op = "claim_task" /\ ~opRet.was /\ opRet.out = <<"non200">>
    /\ opRet.sent = <<>> /\ opRet.ret = "false"

\* C18: a call of _ensure_connected sends no validation request when the
\* session is connected, and at most one when it is not, failed or not.
C18_EnsureConnectedTriesOnce ==
    opRet.op = "_ensure_connected" =>
        /\ opRet.was => (opRet.out = <<>> /\ opRet.ret = "true")
        /\ Len(opRet.out) <= 1
        /\ opRet.ret = "true" <=> OpConnected

\* The one attempt failed in transport and the call returned false.
C18_Witness ==
    /\ opRet.op = "_ensure_connected" /\ ~opRet.was
    /\ opRet.out = <<"transport">> /\ opRet.ret = "false"
    /\ ~sess["p1"].connected

\* C20: on a connected session a call of post, claim, complete or delete
\* sends exactly one request, its own, and returns; when the attempt fails
\* it returns false.
C20_TaskWritesAreSingleAttempts ==
    (opRet.op \in TaskWrites /\ OpConnected) =>
        /\ opRet.sent = <<OpTable[opRet.op].request>>
        /\ opRet.ret \in {"true", "false"}
        /\ StatusOf(opRet.resp) \notin {200, 204} => opRet.ret = "false"

\* A claim on a connected session whose request failed in transport: one
\* PATCH sent, false returned.
C20_Witness ==
    /\ opRet.op = "claim_task" /\ opRet.was /\ opRet.resp = "transport"
    /\ opRet.sent = <<"PATCH shared_tasks">> /\ opRet.ret = "false"

-----------------------------------------------------------------------------
(* SpecTasks: connected agent processes posting, claiming, completing,     *)
(* deleting and listing tasks in any order. A call is one request, the     *)
(* backend's handling of it and the value returned; the request or the     *)
(* reply may be lost and the backend may fail.                             *)

MaxTasks == 1

\* What becomes of a request: handled and answered, handled with the reply
\* lost, lost before it arrived, or failed by the backend with 500.
Deliveries == {"ok", "lost_reply", "lost_request", "error"}
Handled(how) == how \in {"ok", "lost_reply"}

HasTask(tbl, task_id) == \E i \in DOMAIN tbl : tbl[i].id = task_id
TaskIn(tbl, task_id) == tbl[CHOOSE i \in DOMAIN tbl : tbl[i].id = task_id]

\* rpc/post_task: a valid key creates a pending task for the key's team, the
\* newest first in the table, and answers true; any other key answers false.
backend_post(tbl, api_key, to_claude) ==
    IF api_key \in DOMAIN KeyTable
    THEN [body |-> TRUE,
          tbl  |-> <<Task(Len(tbl) + 1, "pending", to_claude, NoName,
                          KeyTable[api_key].team_id, FALSE)>> \o tbl]
    ELSE [body |-> FALSE, tbl |-> tbl]

\* PATCH shared_tasks?id=eq.<id> {status, result}: the backend accepts the
\* completion of a claimed task that is not deleted, giving it the status
\* and the result of the request, and refuses any other with 409.
backend_complete(tbl, task_id, status, result) ==
    IF \E i \in DOMAIN tbl :
          tbl[i].id = task_id /\ tbl[i].status = "claimed" /\ ~tbl[i].deleted
    THEN [code |-> 204,
          tbl  |-> [i \in DOMAIN tbl |->
                      IF tbl[i].id = task_id
                      THEN [tbl[i] EXCEPT !.status = status, !.result = result]
                      ELSE tbl[i]]]
    ELSE [code |-> 409, tbl |-> tbl]

\* rpc/delete_task: a valid key marks a task of its team deleted and answers
\* true; it answers false for any other key or task.
backend_delete(tbl, api_key, task_id) ==
    IF /\ api_key \in DOMAIN KeyTable
       /\ \E i \in DOMAIN tbl : /\ tbl[i].id = task_id /\ ~tbl[i].deleted
                                /\ tbl[i].team_id = KeyTable[api_key].team_id
    THEN [body |-> TRUE,
          tbl  |-> [i \in DOMAIN tbl |->
                      IF tbl[i].id = task_id THEN [tbl[i] EXCEPT !.deleted = TRUE]
                      ELSE tbl[i]]]
    ELSE [body |-> FALSE, tbl |-> tbl]

\* A plausible slip: complete_task reporting a failure.
CompleteStatus_failed == "failed"

\* A plausible slip: complete_task sending the status of a fresh task.
CompleteStatus_pending == "pending"

\* complete_task, line 593: "status": "done"
CompleteStatus == "done"

\* The table after a request whose handling by the backend gives b.
TableAfter(how, tbl, b) == IF Handled(how) THEN b.tbl ELSE tbl

\* post_task / delete_task, lines 553 and 619:
\* resp.status_code == 200 and resp.json() == True
RpcResult(how, b) == how = "ok" /\ b.body

\* claim_task / complete_task, lines 578 and 599: resp.status_code in [200, 204]
PatchResult(how, b) ==
    IF how = "ok" THEN ClaimResult(b.code)
    ELSE IF how = "error" THEN ClaimResult(500)
    ELSE FALSE

\* post_task, lines 538-560, on a connected session
post_task(s, tbl, to_claude, how) ==
    [tbl |-> TableAfter(how, tbl, backend_post(tbl, s.api_key, to_claude)),
     ret |-> RpcResult(how, backend_post(tbl, s.api_key, to_claude))]

\* claim_task, lines 567-581, on a connected session
claim_task(s, tbl, task_id, how) ==
    [tbl |-> TableAfter(how, tbl, backend_claim(tbl, task_id, s.claude_name)),
     ret |-> PatchResult(how, backend_claim(tbl, task_id, s.claude_name))]

\* complete_task, lines 588-602, on a connected session
complete_task(s, tbl, task_id, result, how) ==
    [tbl |-> TableAfter(how, tbl, backend_complete(tbl, task_id, CompleteStatus, result)),
     ret |-> PatchResult(how, backend_complete(tbl, task_id, CompleteStatus, result))]

\* delete_task, lines 609-625, on a connected session
delete_task(s, tbl, task_id, how) ==
    [tbl |-> TableAfter(how, tbl, backend_delete(tbl, s.api_key, task_id)),
     ret |-> RpcResult(how, backend_delete(tbl, s.api_key, task_id))]

TaskRecord(op, p, task_id, how, r) ==
    [OpIdle EXCEPT !.op = op, !.arg = task_id, !.flags = <<p, how>>, !.was = TRUE,
                   !.resp = how, !.ret = IF r.ret THEN "true" ELSE "false"]

TaskCall(op, p, task_id, how, r) ==
    /\ sess[p].connected
    /\ tasks' = r.tbl
    /\ opRet' = TaskRecord(op, p, task_id, how, r)
    /\ UNCHANGED <<chat, cpRet>>
    /\ UNCHANGED <<rolesVars, settingsVars, sessionVars, claimVars, raceVars>>

PostTask(p, to_claude, how) ==
    /\ Len(tasks) < MaxTasks
    /\ TaskCall("post_task", p, 0, how, post_task(sess[p], tasks, to_claude, how))

ClaimTask(p, task_id, how) ==
    /\ how \in Deliveries
    /\ TaskCall("claim_task", p, task_id, how, claim_task(sess[p], tasks, task_id, how))

CompleteTask(p, task_id, result, how) ==
    /\ how \in Deliveries
    /\ TaskCall("complete_task", p, task_id, how,
                complete_task(sess[p], tasks, task_id, result, how))

DeleteTask(p, task_id, how) ==
    /\ how \in Deliveries
    /\ TaskCall("delete_task", p, task_id, how, delete_task(sess[p], tasks, task_id, how))

\* get_tasks(status): the status given, "pending" by default, or none ("")
StatusFilters == {"", "pending", "claimed", "done", "failed"}

GetTasks(p, status, resp) ==
    /\ sess[p].connected
    /\ opRet' = [OpIdle EXCEPT !.op = "get_tasks", !.flags = <<p, status>>, !.was = TRUE,
                               !.resp = resp,
                               !.list = get_tasks(sess[p], tasks, status, resp)]
    /\ UNCHANGED <<chat, tasks, cpRet>>
    /\ UNCHANGED <<rolesVars, settingsVars, sessionVars, claimVars, raceVars>>

InitTasks ==
    /\ sess \in {[p \in Procs |-> IF p = "p1" THEN ConnectedSession("cc_1") ELSE s2] :
                    s2 \in {ConnectedSession("cc_3"), ConnectedSession("cc_4")}}
    /\ environ = EnvironIdle
    /\ keystore = KeystoreIdle
    /\ clock = 0
    /\ conRet = ConIdle
    /\ chat = ChatIdle
    /\ tasks \in {TasksIdle, <<Task(1, "failed", NoName, N_TKINTER, "T1", FALSE)>>}
    /\ GateAtRest
    /\ RolesAtRest /\ SettingsAtRest /\ ClaimAtRest /\ RaceAtRest

NextTasks ==
    \/ \E p \in Procs, how \in Deliveries : PostTask(p, NoName, how)
    \/ \E p \in Procs, task_id \in 1..MaxTasks, how \in Deliveries :
            ClaimTask(p, task_id, how)
    \/ \E p \in Procs, task_id \in 1..MaxTasks, how \in Deliveries :
            CompleteTask(p, task_id, "res1", how)
    \/ \E p \in Procs, task_id \in 1..MaxTasks, how \in Deliveries :
            DeleteTask(p, task_id, how)
    \/ \E p \in Procs, status \in StatusFilters, resp \in {"ok", "non200", "transport"} :
            GetTasks(p, status, resp)

SpecTasks == InitTasks /\ [][NextTasks]_vars

Forward(a, b) ==
    \/ a = b
    \/ a = "pending" /\ b = "claimed"
    \/ a = "claimed" /\ b \in {"done", "failed"}

\* C21: whatever calls the agents make, every task stays in the table, a
\* task that enters it is pending, and a task's status stays as it is or
\* moves from pending to claimed or from claimed to done or failed.
C21_StatusMovesForward ==
    [][ /\ \A i \in DOMAIN tasks :
              /\ HasTask(tasks', tasks[i].id)
              /\ Forward(tasks[i].status, TaskIn(tasks', tasks[i].id).status)
        /\ \A j \in DOMAIN tasks' :
              ~HasTask(tasks, tasks'[j].id) => tasks'[j].status = "pending"
      ]_vars

\* A posted task was claimed and completed, and a later claim of it was
\* sent and refused.
C21_Witness ==
    /\ \E i \in DOMAIN tasks : tasks[i].status = "done" /\ tasks[i].id = opRet.arg
    /\ opRet.op = "claim_task" /\ opRet.resp = "ok" /\ opRet.ret = "false"

\* The tasks of a list, each as the table holds it now.
Listed(list, tbl) == {TaskIn(tbl, list[k].id) : k \in DOMAIN list}

\* C22: a task whose delete_task call returned true is marked deleted, a
\* deleted task stays deleted, and every task get_tasks returns is not
\* deleted, belongs to the caller's team and, when a status was given, has
\* that status: a deleted task is in no list for any status filter.
C22_ListNeverReturnsDeletedTask ==
    [][ /\ \A i \in DOMAIN tasks :
              tasks[i].deleted => TaskIn(tasks', tasks[i].id).deleted
        /\ (opRet'.op = "delete_task" /\ opRet'.ret = "true") =>
              TaskIn(tasks', opRet'.arg).deleted
        /\ opRet'.op = "get_tasks" =>
              \A t \in Listed(opRet'.list, tasks') :
                  /\ ~t.deleted
                  /\ t.team_id = sess'[opRet'.flags[1]].team_id
                  /\ opRet'.flags[2] # "" => t.status = opRet'.flags[2]
      ]_vars

\* A task of the caller's team is deleted, and the caller's list with no
\* status filter, answered by the backend, does not hold it.
C22_Witness ==
    /\ opRet.op = "get_tasks" /\ opRet.flags[2] = "" /\ opRet.resp = "ok"
    /\ \E i \in DOMAIN tasks :
          /\ tasks[i].deleted /\ tasks[i].team_id = sess[opRet.flags[1]].team_id
          /\ \A k \in DOMAIN opRet.list : opRet.list[k].id # tasks[i].id

-----------------------------------------------------------------------------
(* SpecHeartbeat: heartbeat on sessions that are connected, that can       *)
(* auto-connect and that cannot, with every outcome of its requests.       *)

InitHeartbeat ==
    /\ sess \in {SessIdle, [SessIdle EXCEPT !["p1"] = ConnectedSession("cc_1")]}
    /\ environ \in {[EnvironIdle EXCEPT !.generic = k] : k \in {NoKey, "cc_1"}}
    /\ keystore = KeystoreIdle
    /\ clock = 0
    /\ conRet = ConIdle
    /\ chat \in {ChatIdle, ChatLog(1)}
    /\ tasks = TasksIdle
    /\ GateAtRest
    /\ RolesAtRest /\ SettingsAtRest /\ ClaimAtRest /\ RaceAtRest

NextHeartbeat ==
    \E working_on \in WorkingOns, check_mentions \in BOOLEAN :
      \E respInst \in FollowUps \cup {"none"}, respPatch \in FollowUps \cup {"none"},
         respChat \in FollowUps \cup {"none"} :
         Heartbeat("p1", working_on, check_mentions, respInst, respPatch, respChat)

SpecHeartbeat == InitHeartbeat /\ [][NextHeartbeat]_vars

\* The last call was a heartbeat on a connected session; its arguments and
\* the responses to the upsert, to get_my_instance, to the PATCH and to
\* rpc/get_chat.
HeartbeatCall == opRet.op = "heartbeat" /\ OpConnected
HbWorkingOn == opRet.flags[1]
HbCheckMentions == opRet.flags[2]
HbUpsert == opRet.resps[1]
HbInstance == opRet.resps[2]
HbPatch == opRet.resps[3]
HbChat == opRet.resps[4]

\* C23: heartbeat's ok is true exactly when the presence upsert returned
\* 200 with body true, whatever became of the working_on patch and of the
\* mention scan; no exception leaves heartbeat; and when the mentions were
\* asked for and fetched they are folded into the result, the upsert failed
\* or not.
C23_OkDependsOnUpsertOnly ==
    HeartbeatCall =>
        /\ opRet.ret = "true" <=> HbUpsert = "200 true"
        /\ ~opRet.raised
        /\ (HbCheckMentions /\ HbChat = "200 list") =>
              opRet.found = get_mentions(sess["p1"], chat, DefaultLimit, "ok")

\* The upsert succeeded, the PATCH failed in transport and the mention
\* scan raised: ok is true.
C23_Witness ==
    /\ HeartbeatCall /\ HbUpsert = "200 true"
    /\ HbPatch = "transport" /\ HbChat = "200 object"
    /\ opRet.ret = "true" /\ opRet.found = <<>>

\* The upsert failed and the mentions were still counted.
C23_WitnessFolded ==
    /\ HeartbeatCall /\ HbUpsert = "500" /\ opRet.ret = "false"
    /\ Len(opRet.found) = 1

IsPrefix(v, text, n) ==
    /\ Len(v) = (IF Len(text) < n THEN Len(text) ELSE n)
    /\ \A i \in DOMAIN v : v[i] = text[i]

PatchOnlyAfterUpsert ==
    /\ opRet.patch # <<>> => (HbWorkingOn.some /\ HbUpsert = "200 true")
    /\ (~HbWorkingOn.some \/ HbUpsert # "200 true") =>
          \A i \in DOMAIN opRet.sent : opRet.sent[i] # "PATCH claude_instances"

\* C29 as claimed: the PATCH is sent only when working_on was given and the
\* upsert of the call succeeded, and its value is the first 200 characters
\* of the text given.
C29_PatchSendsFirst200Characters ==
    opRet.op = "heartbeat" =>
        /\ PatchOnlyAfterUpsert
        /\ opRet.patch # <<>> =>
              /\ opRet.patch[1].t = "str"
              /\ IsPrefix(opRet.patch[1].v, HbWorkingOn.text, 200)

\* C29 as amended: the same, the value being null when the text given is
\* empty.
C29_PatchSendsFirst200CharactersOrNull ==
    opRet.op = "heartbeat" =>
        /\ PatchOnlyAfterUpsert
        /\ opRet.patch # <<>> =>
              IF HbWorkingOn.text = <<>> THEN opRet.patch = <<Null>>
              ELSE /\ Len(opRet.patch) = 1 /\ opRet.patch[1].t = "str"
                   /\ IsPrefix(opRet.patch[1].v, HbWorkingOn.text, 200)

\* A text of 201 characters was given and its first 200 were sent.
C29_Witness ==
    /\ HeartbeatCall /\ Len(HbWorkingOn.text) = 201
    /\ Len(opRet.patch) = 1 /\ Len(opRet.patch[1].v) = 200

-----------------------------------------------------------------------------
(* SpecStock: stock_key called again and again, with two keys, on a        *)
(* keystore that does not exist, that holds entries, or that is corrupt.   *)

LaterKeys == {"cc_4", "cc_3"}

InitStock ==
    /\ sess = SessIdle
    /\ environ = EnvironIdle
    /\ keystore \in {KeystoreIdle, CorruptKeystore, StockedKeystore("cc_4", NoKey),
                     StockedKeystore("cc_1", "cc_4")}
    /\ clock = 0
    /\ conRet = ConIdle
    /\ RolesAtRest /\ SettingsAtRest /\ BackendAtRest /\ GateAtRest /\ ClaimAtRest /\ RaceAtRest

\* The step is a stock_key call.
StockCall ==
    \E name \in StockNames, key \in LaterKeys, rk \in Requesters,
       resp \in AllResponses : StockKey(name, key, rk, resp)

NextStock == StockCall \/ Tick

SpecStock == InitStock /\ [][NextStock]_vars

\* The name in the spellings a caller may give it.
Spellings(name) ==
    {name, upper(name)} \cup {n \in StockNames \cup KeyNames : upper(n) = upper(name)}

\* C26: after a stock_key call that returned true, vend_key returns the key
\* stocked for the name in any spelling of its case (also when another key
\* was stocked for it before: the last write wins), the keystore exists, and
\* vend_key returns for every other name what it returned before.
C26_VendReturnsWhatWasStockedLast ==
    [][(StockCall /\ conRet'.ret) =>
        /\ \A n \in Spellings(conRet'.name) : vend_key(keystore', n) = conRet'.key
        /\ keystore'.st = "ok"
        /\ \A n \in KeyNames :
              upper(n) # upper(conRet'.name) => vend_key(keystore', n) = vend_key(keystore, n)
      ]_vars

\* A key was stocked under a lower-case name over another key stocked for
\* that name before, and BLACK's entry is still what it was.
C26_Witness ==
    /\ conRet.op = "stock" /\ conRet.ret
    /\ conRet.name = <<"i","n","t","o","l","e","r","a","n","t">>
    /\ conRet.key = "cc_3" /\ conRet.prior = "cc_4"
    /\ vend_key(keystore, N_INTOLERANT) = "cc_3"
    /\ vend_key(keystore, N_BLACK) = "cc_4"

-----------------------------------------------------------------------------
(* SpecLookup: vend_key and get_bot_settings on keystores and bot folders  *)
(* that exist or not, hold the entry or document or not, or are corrupt.   *)

LookupNames == {N_BLACK, N_TKINTER, <<"O","l","l","a","m","a">>,
                <<"i","n","t","o","l","e","r","a","n","t">>}

VendKey(name) ==
    /\ conRet' = [ConIdle EXCEPT !.op = "vend", !.name = name,
                                 !.key = vend_key(keystore, name)]
    /\ UNCHANGED <<sess, environ, keystore, clock>>
    /\ UNCHANGED <<rolesVars, settingsVars, backendVars, gateVars, claimVars, raceVars>>

GetBotSettings(bot_name) ==
    /\ setRet' = [SetIdle EXCEPT
                    !.op = "read", !.bot = bot_name,
                    !.result = IF get_bot_settings(docs, bot_name).some
                               THEN "document" ELSE "absent",
                    !.patch = get_bot_settings(docs, bot_name).c]
    /\ UNCHANGED docs
    /\ UNCHANGED <<rolesVars, sessionVars, backendVars, gateVars, claimVars, raceVars>>

InitLookup ==
    /\ docs \in [Folders -> {NoFolder, NoFile, CorruptDoc, OkDoc(EmptyDoc),
                             OkDoc(Patch(List(<<"r1">>), Absent))}]
    /\ setRet = SetIdle
    /\ sess = SessIdle
    /\ environ = EnvironIdle
    /\ keystore \in {KeystoreIdle, CorruptKeystore, StockedKeystore("cc_4", NoKey),
                     StockedKeystore(NoKey, "cc_1")}
    /\ clock = 0
    /\ conRet = ConIdle
    /\ RolesAtRest /\ BackendAtRest /\ GateAtRest /\ ClaimAtRest /\ RaceAtRest

NextLookup ==
    \/ \E name \in LookupNames : VendKey(name)
    \/ \E bot_name \in LookupNames : GetBotSettings(bot_name)

SpecLookup == InitLookup /\ [][NextLookup]_vars

\* The keystore has nothing to vend for the name; the folder has no
\* document to read.
NothingToVend(name) ==
    \/ keystore.st \in {"nofile", "corrupt"}
    \/ upper(name) \notin DOMAIN keystore.keys
    \/ keystore.keys[upper(name)] = NoKey
NothingToRead(bot_name) ==
    \/ upper(bot_name) \notin DOMAIN docs
    \/ docs[upper(bot_name)].st \in {"nofolder", "nofile", "corrupt"}

\* C25: vend_key returns None when the keystore does not exist, is corrupt
\* or has no entry for the name, and get_bot_settings returns None when the
\* folder or the document does not exist or the document is corrupt; no
\* call of either changes the keystore or a settings document.
C25_LookupsReturnAbsentAndChangeNothing ==
    [][ /\ (conRet'.op = "vend" /\ NothingToVend(conRet'.name)) => conRet'.key = NoKey
        /\ (setRet'.op = "read" /\ NothingToRead(setRet'.bot)) => setRet'.result = "absent"
        /\ keystore' = keystore
        /\ docs' = docs
      ]_vars

\* The keystore and OLLAMA's document are corrupt; the vend and the read
\* both came back with nothing.
C25_Witness ==
    /\ conRet.op = "vend" /\ keystore.st = "corrupt" /\ conRet.key = NoKey
    /\ setRet.op = "read" /\ setRet.bot = <<"O","l","l","a","m","a">>
    /\ docs[N_OLLAMA] = CorruptDoc /\ setRet.result = "absent"

-----------------------------------------------------------------------------
(* SpecRace: two processes, each making one local update (a settings       *)
(* write, an add_rule or a stock_key), step by step: a process reads the   *)
(* file, and writes it back in a later step, with the steps of the other   *)
(* process in between.                                                     *)

\* A plausible slip: the merge done on the file as it is at the write.
Written_fresh(existing, current, settings) == MergeDoc(current, settings)

\* set_bot_settings, lines 140-147: the merge goes into `existing`, the
\* mapping the call loaded, and that is what is written, whatever the file
\* (current) holds by then.
Written(existing, current, settings) == MergeDoc(existing, settings)

\* set_bot_settings, lines 122-137, as a step of its own: the checks, and
\* the file loaded into `existing`. The call returns False at once when the
\* hierarchy denies it, the folder is missing or the file does not parse.
SetRead(h, d, bot_name, settings, manager_name) ==
    IF \/ HierarchyDenies(manager_name, bot_name)
       \/ get_bot_folder(d, bot_name) = NoName
       \/ d[get_bot_folder(d, bot_name)].st = "corrupt"
    THEN [h EXCEPT !.at = "done", !.ret = "false", !.patch = settings]
    ELSE [h EXCEPT !.at = "loaded", !.folder = get_bot_folder(d, bot_name),
                   !.patch = settings,
                   !.existing = IF d[get_bot_folder(d, bot_name)].st = "ok"
                                THEN d[get_bot_folder(d, bot_name)].c ELSE EmptyDoc]

\* A process calls set_bot_settings(bot_name, settings) and gets as far as
\* having loaded the file.
WriteRead(p, bot_name, settings) ==
    /\ held[p].at = "idle"
    /\ held' = [held EXCEPT ![p] = SetRead([@ EXCEPT !.op = "write"], docs,
                                           bot_name, settings, NoName)]
    /\ UNCHANGED <<rolesVars, settingsVars, sessionVars, backendVars, gateVars, claimVars>>

\* add_bot_rule, lines 183-186: the rules as get_bot_settings returns them,
\* with the rule appended when it is not among them.
RulesWith(d, bot_name, rule) ==
    IF get_bot_settings(d, bot_name).c["rules"].t = "absent" THEN List(<<rule>>)
    ELSE IF RuleInList(rule, get_bot_settings(d, bot_name).c["rules"].l)
    THEN get_bot_settings(d, bot_name).c["rules"]
    ELSE List(Append(get_bot_settings(d, bot_name).c["rules"].l, rule))

\* A process calls add_bot_rule(bot_name, rule) and gets as far as the call
\* of set_bot_settings. (The rules in these files are lists or absent.)
AddRuleRead(p, bot_name, rule) ==
    /\ held[p].at = "idle"
    /\ held' = [held EXCEPT ![p] = [@ EXCEPT !.op = "add_rule", !.at = "rules",
                    !.name = bot_name,
                    !.patch = [EmptyDoc EXCEPT !["rules"] = RulesWith(docs, bot_name, rule)]]]
    /\ UNCHANGED <<rolesVars, settingsVars, sessionVars, backendVars, gateVars, claimVars>>

\* add_bot_rule, line 187: its set_bot_settings call loads the file.
AddRuleSetRead(p) ==
    /\ held[p].at = "rules"
    /\ held' = [held EXCEPT ![p] = SetRead(@, docs, held[p].name, held[p].patch, NoName)]
    /\ UNCHANGED <<rolesVars, settingsVars, sessionVars, backendVars, gateVars, claimVars>>

\* set_bot_settings, lines 139-150: merge, write back, return True.
SetWrite(p) ==
    /\ held[p].at = "loaded" /\ held[p].op \in {"write", "add_rule"}
    /\ docs' = [docs EXCEPT ![held[p].folder] =
                   OkDoc(Written(held[p].existing, @.c, held[p].patch))]
    /\ held' = [held EXCEPT ![p] = [@ EXCEPT !.at = "done", !.ret = "true"]]
    /\ UNCHANGED <<setRet, rolesVars, sessionVars, backendVars, gateVars, claimVars>>

\* stock_key(name, key), lines 248-255: the keystore loaded, or a new one
\* begun; a keystore that does not parse makes the call return False.
StockRead(p, name, key) ==
    /\ held[p].at = "idle"
    /\ held' = [held EXCEPT ![p] =
                  IF keystore.st = "corrupt"
                  THEN [@ EXCEPT !.op = "stock", !.at = "done", !.ret = "false",
                                 !.name = name, !.key = key]
                  ELSE [@ EXCEPT !.op = "stock", !.at = "loaded",
                                 !.name = name, !.key = key,
                                 !.keys = IF keystore.st = "ok" THEN keystore.keys
                                          ELSE KeystoreIdle.keys]]
    /\ UNCHANGED <<rolesVars, settingsVars, sessionVars, backendVars, gateVars, claimVars>>

\* stock_key, lines 257-265: the entry set in the mapping the call loaded,
\* the mapping written back, True returned.
StockWrite(p) ==
    /\ held[p].at = "loaded" /\ held[p].op = "stock"
    /\ keystore' = [st |-> "ok", updated |-> clock,
                    keys |-> [held[p].keys EXCEPT ![upper(held[p].name)] = held[p].key]]
    /\ held' = [held EXCEPT ![p] = [@ EXCEPT !.at = "done", !.ret = "true"]]
    /\ UNCHANGED <<sess, environ, clock, conRet>>
    /\ UNCHANGED <<rolesVars, settingsVars, backendVars, gateVars, claimVars>>

\* The updates the processes make: nested mappings under one key, rules,
\* and keys for two names.
RacePatches ==
    { [EmptyDoc EXCEPT !["cfg"] = Map([EmptyMap EXCEPT !["a"] = 1])],
      [EmptyDoc EXCEPT !["cfg"] = Map([EmptyMap EXCEPT !["b"] = 1])] }
RaceBots == {N_OLLAMA}

InitRace ==
    /\ docs \in [Folders -> {NoFile, OkDoc(EmptyDoc)}]
    /\ keystore \in {KeystoreIdle, [KeystoreIdle EXCEPT !.st = "ok"]}
    /\ setRet = SetIdle
    /\ sess = SessIdle /\ environ = EnvironIdle /\ clock = 0 /\ conRet = ConIdle
    /\ held = HeldIdle
    /\ RolesAtRest /\ BackendAtRest /\ GateAtRest /\ ClaimAtRest

NextRace ==
    \E p \in Procs :
        \/ \E bot_name \in RaceBots, settings \in RacePatches : WriteRead(p, bot_name, settings)
        \/ \E bot_name \in RaceBots, rule \in RuleStrs : AddRuleRead(p, bot_name, rule)
        \/ AddRuleSetRead(p)
        \/ SetWrite(p)
        \/ \E name \in KeyNames, key \in LaterKeys : StockRead(p, name, key)
        \/ StockWrite(p)

SpecRace == InitRace /\ [][NextRace]_vars

\* The processes whose settings call on a folder has returned True, and
\* those whose stock_key has.
Wrote(folder) ==
    {p \in Procs : /\ held[p].op \in {"write", "add_rule"} /\ held[p].ret = "true"
                   /\ held[p].folder = folder}
Stocked == {p \in Procs : held[p].op = "stock" /\ held[p].ret = "true"}

\* A document holds a patch: merging the patch into it changes nothing.
Holds(doc, settings) == MergeDoc(doc, settings) = doc

\* C31: updates of one file by two processes are not serialised. Once calls
\* on a file have returned true, the file is what ONE of them loaded with
\* that call's own update merged in, whatever the other call wrote in
\* between: an update written after the last writer loaded the file is lost
\* (the witness is the interleaving in which that happens).
C31_FileIsOneCallsSnapshotAndUpdate ==
    /\ \A folder \in Folders :
          Wrote(folder) # {} =>
             \E w \in Wrote(folder) :
                docs[folder] = OkDoc(MergeDoc(held[w].existing, held[w].patch))
    /\ Stocked # {} =>
          \E w \in Stocked :
             keystore.keys = [held[w].keys EXCEPT ![upper(held[w].name)] = held[w].key]

\* Two settings writes on OLLAMA's file have both returned true, one of
\* cfg.a and one of cfg.b, and the file holds only one of the two.
C31_Witness ==
    /\ held["p1"].op = "write" /\ held["p2"].op = "write"
    /\ held["p1"].ret = "true" /\ held["p2"].ret = "true"
    /\ held["p1"].folder = N_OLLAMA /\ held["p2"].folder = N_OLLAMA
    /\ held["p1"].patch # held["p2"].patch
    /\ docs[N_OLLAMA].st = "ok"
    /\ ~Holds(docs[N_OLLAMA].c, held["p1"].patch)
    /\ Holds(docs[N_OLLAMA].c, held["p2"].patch)

\* The same for two add_rule calls (r1 is lost) and for two stock_key calls
\* (the key of BLACK is lost).
C31_WitnessRules ==
    /\ held["p1"].op = "add_rule" /\ held["p2"].op = "add_rule"
    /\ held["p1"].ret = "true" /\ held["p2"].ret = "true"
    /\ held["p1"].patch["rules"] = List(<<"r1">>)
    /\ docs[N_OLLAMA] = OkDoc([EmptyDoc EXCEPT !["rules"] = List(<<"r2">>)])
C31_WitnessStock ==
    /\ Stocked = Procs
    /\ held["p1"].name = N_BLACK /\ held["p2"].name = N_INTOLERANT
    /\ keystore.keys[N_BLACK] = NoKey /\ keystore.keys[N_INTOLERANT] # NoKey

-----------------------------------------------------------------------------
(* SpecRetry: two connected agents claim and complete one task, each call  *)
(* as often as they like, with requests and replies that can be lost; the  *)
(* attempts made are kept in claimLog.                                     *)

TaskResults == {"res1", "res2"}
RetryDeliveries == {"ok", "lost_reply", "lost_request"}

\* An attempt of process p: the call, its arguments, and whether it took
\* effect (the request reached the backend and the backend accepted it).
Attempt(op, p, task_id, result, took) ==
    [kind |-> op, p |-> p, id |-> task_id, result |-> result, took |-> took]

RetryCall(op, p, task_id, result, how, r) ==
    /\ sess[p].connected
    /\ tasks' = r.tbl
    /\ opRet' = TaskRecord(op, p, task_id, how, r)
    /\ claimLog' = claimLog \cup {Attempt(op, p, task_id, result, r.tbl # tasks)}
    /\ UNCHANGED <<chat, cpRet, pc, net>>
    /\ UNCHANGED <<rolesVars, settingsVars, sessionVars, raceVars>>

RetryClaim(p, task_id, how) ==
    /\ how \in RetryDeliveries
    /\ RetryCall("claim_task", p, task_id, "", how,
                 claim_task(sess[p], tasks, task_id, how))

RetryComplete(p, task_id, result, how) ==
    /\ how \in RetryDeliveries
    /\ RetryCall("complete_task", p, task_id, result, how,
                 complete_task(sess[p], tasks, task_id, result, how))

InitRetry ==
    /\ sess = [p \in Procs |-> IF p = "p1" THEN ConnectedSession("cc_1")
                               ELSE ConnectedSession("cc_3")]
    /\ environ = EnvironIdle
    /\ keystore = KeystoreIdle
    /\ clock = 0
    /\ conRet = ConIdle
    /\ chat = ChatIdle
    /\ tasks = <<Task(1, "pending", NoName, NoName, "T1", FALSE)>>
    /\ GateAtRest
    /\ RolesAtRest /\ SettingsAtRest /\ ClaimAtRest /\ RaceAtRest

NextRetry ==
    \/ \E p \in Procs, how \in RetryDeliveries : RetryClaim(p, 1, how)
    \/ \E p \in Procs, result \in TaskResults, how \in RetryDeliveries :
            RetryComplete(p, 1, result, how)

SpecRetry == InitRetry /\ [][NextRetry]_vars

\* The step is a call op of process p on the task.
CallOf(op, p, task_id) ==
    opRet'.op = op /\ opRet'.arg = task_id /\ opRet'.flags[1] = p

\* An earlier attempt of the call by p, with the same arguments, took effect.
TookBefore(op, p, task_id, result) ==
    Attempt(op, p, task_id, result, TRUE) \in claimLog

-----------------------------------------------------------------------------
(* SpecSummary: get_project_summary on a session, for the current project  *)
(* and for others, with every answer the backend can give to each of its   *)
(* requests.                                                               *)

\* What a fetch hands back: resp.json() on 200, whatever the body is, and
\* the empty list on any other status or an exception.
Body(resp) ==
    IF resp \in {"200 list", "200 false", "200 object"} THEN resp ELSE "empty"

\* `for x in body: x.get(...)`: false cannot be iterated, and the elements
\* of a JSON object are its keys, which have no .get.
IterRaises(body) == body \in {"200 false", "200 object"}

\* get_projects, lines 881-908: the body of rpc/get_channels when it is
\* truthy; after a falsy body or another status, that of GET projects; the
\* empty list after an exception.
ProjectsFallsBack(respRpc) == respRpc \in {"200 false", "500"}
get_projects(respRpc, respGet) ==
    IF respRpc \in {"200 list", "200 object"} THEN respRpc
    ELSE IF ProjectsFallsBack(respRpc) THEN Body(respGet)
    ELSE "empty"

\* project_slug: None or "" stands for the current project
NoSlug == ""

\* get_project_summary, lines 1191-1240: the project switched to the target,
\* the tasks fetched and counted, the knowledge fetched, the project put
\* back, the summary built. An exception in the count leaves the function
\* at once.
SummaryScan(s, target, respTasks, respRecent) ==
    IF IterRaises(Body(respTasks))
    THEN [s |-> [s EXCEPT !.project_slug = target], raised |-> TRUE]
    ELSE [s |-> [[s EXCEPT !.project_slug = target] EXCEPT !.project_slug = s.project_slug],
          raised |-> IterRaises(Body(respRecent))]

\* get_project_summary, line 1177: slug = project_slug or self.project_slug
SummaryTarget(s, project_slug) ==
    IF project_slug = NoSlug THEN s.project_slug ELSE project_slug

\* get_project_summary, lines 1174-1187, after _ensure_connected (e): the
\* projects and the online list are searched before the switch.
SummaryFrom(e, project_slug, respRpc, respGet, respOnline, respTasks, respRecent) ==
    IF ~e.ret THEN [s |-> e.s, raised |-> FALSE, out |-> e.out]
    ELSE IF IterRaises(get_projects(respRpc, respGet)) \/ IterRaises(Body(respOnline))
    THEN [s |-> e.s, raised |-> TRUE, out |-> e.out]
    ELSE [s |-> SummaryScan(e.s, SummaryTarget(e.s, project_slug),
                            respTasks, respRecent).s,
          raised |-> SummaryScan(e.s, SummaryTarget(e.s, project_slug),
                                 respTasks, respRecent).raised,
          out |-> e.out]

get_project_summary(s, env, ks, project_slug, resp0, respRpc, respGet, respOnline, respTasks, respRecent) ==
    SummaryFrom(ensure_connected(s, env, ks, resp0), project_slug,
                respRpc, respGet, respOnline, respTasks, respRecent)

\* The answers to the requests of one call: none to a request that is not
\* sent (the session is not connected, the fallback is not needed, or an
\* exception has ended the call before).
SummaryAnswers(connected, respRpc, respGet, respOnline, respTasks, respRecent) ==
    /\ respRpc \in FollowUp(connected)
    /\ respGet \in FollowUp(connected /\ ProjectsFallsBack(respRpc))
    /\ respOnline \in FollowUp(connected)
    /\ respTasks \in FollowUp(/\ connected
                              /\ ~IterRaises(get_projects(respRpc, respGet))
                              /\ ~IterRaises(Body(respOnline)))
    /\ respRecent \in FollowUp(/\ connected
                               /\ ~IterRaises(get_projects(respRpc, respGet))
                               /\ ~IterRaises(Body(respOnline))
                               /\ ~IterRaises(Body(respTasks)))

GetProjectSummary(p, project_slug, respRpc, respGet, respOnline, respTasks, respRecent) ==
    \E resp0 \in (IF sess[p].connected THEN {"none"}
                  ELSE RespFor(AutoKey(sess[p], environ, keystore))) :
        /\ SummaryAnswers(ensure_connected(sess[p], environ, keystore, resp0).ret,
                          respRpc, respGet, respOnline, respTasks, respRecent)
        /\ CheckpointDone(p, get_project_summary(sess[p], environ, keystore, project_slug,
                                resp0, respRpc, respGet, respOnline, respTasks, respRecent))
        /\ opRet' = [OpIdle EXCEPT
                        !.op = "get_project_summary", !.flags = <<project_slug>>,
                        !.was = sess[p].connected,
                        !.resps = <<respRpc, respGet, respOnline, respTasks, respRecent>>,
                        !.out = get_project_summary(sess[p], environ, keystore, project_slug,
                                   resp0, respRpc, respGet, respOnline, respTasks, respRecent).out,
                        !.raised = get_project_summary(sess[p], environ, keystore, project_slug,
                                   resp0, respRpc, respGet, respOnline, respTasks, respRecent).raised]
        /\ UNCHANGED <<environ, keystore, clock, conRet, cpRet>>
        /\ UNCHANGED <<rolesVars, settingsVars, backendVars, claimVars, raceVars>>

SummarySlugs == {NoSlug, DefaultProject, "other"}

InitSummary ==
    /\ sess \in {[SessIdle EXCEPT !["p1"] = s1] : s1 \in {NewSession, ConnectedSession("cc_1")}}
    /\ environ \in {[EnvironIdle EXCEPT !.generic = k] : k \in {NoKey, "cc_3"}}
    /\ keystore = KeystoreIdle
    /\ clock = 0
    /\ conRet = ConIdle
    /\ GateAtRest
    /\ RolesAtRest /\ SettingsAtRest /\ BackendAtRest /\ ClaimAtRest /\ RaceAtRest

\* The answers drawn here: every one to the task fetch, and to the other
\* requests those that take the call down each of its paths.
SomeChannels == {"none", "200 list", "200 false", "200 object", "transport"}
SomeRecent   == {"none", "200 list", "200 object"}

NextSummary ==
    \E project_slug \in SummarySlugs,
       respRpc \in SomeChannels, respGet \in SomeFollowUps,
       respOnline \in SomeFollowUps, respTasks \in FollowUps \cup {"none"},
       respRecent \in SomeRecent :
        GetProjectSummary("p1", project_slug, respRpc, respGet, respOnline,
                          respTasks, respRecent)

SpecSummary == InitSummary /\ [][NextSummary]_vars

\* C36: get_project_summary leaves the session's active project as it was,
\* for every slug and every outcome of its backend calls.
C36_SummaryKeepsTheActiveProject ==
    [][NextSummary =>
          \A p \in Procs : sess'[p].project_slug = sess[p].project_slug]_vars

-----------------------------------------------------------------------------
(* SpecClient: the task table from empty, changed by nothing but the       *)
(* post, claim, complete and delete calls of the two agents.               *)

InitClient ==
    /\ sess \in {[p \in Procs |-> IF p = "p1" THEN ConnectedSession("cc_1") ELSE s2] :
                    s2 \in {ConnectedSession("cc_3"), ConnectedSession("cc_4")}}
    /\ environ = EnvironIdle
    /\ keystore = KeystoreIdle
    /\ clock = 0
    /\ conRet = ConIdle
    /\ chat = ChatIdle
    /\ tasks = TasksIdle
    /\ GateAtRest
    /\ RolesAtRest /\ SettingsAtRest /\ ClaimAtRest /\ RaceAtRest

SpecClient == InitClient /\ [][NextTasks]_vars

\* The task with an id after the step, and before it (a task that is new
\* was pending with no claimant and no result).
Before(task_id) ==
    IF HasTask(tasks, task_id) THEN TaskIn(tasks, task_id)
    ELSE [TaskIn(tasks', task_id) EXCEPT !.status = "pending", !.claimed_by = NoName,
                                         !.result = "", !.deleted = FALSE]

\* C37: no client operation requests the status failed. No task is ever
\* failed; a status is written only as claimed, together with the caller's
\* identity name as claimed_by, or as done, together with a result.
C37_ClientWritesOnlyClaimedAndDone ==
    [][\A i \in DOMAIN tasks' :
          /\ tasks'[i].status \in {"pending", "claimed", "done"}
          /\ tasks'[i].status # Before(tasks'[i].id).status =>
               \/ /\ tasks'[i].status = "claimed"
                  /\ opRet'.op = "claim_task"
                  /\ tasks'[i].claimed_by = sess[opRet'.flags[1]].claude_name
               \/ /\ tasks'[i].status = "done"
                  /\ opRet'.op = "complete_task"
                  /\ tasks'[i].result # ""
          /\ tasks'[i].claimed_by # Before(tasks'[i].id).claimed_by =>
               tasks'[i].status = "claimed"
          /\ tasks'[i].result # Before(tasks'[i].id).result =>
               tasks'[i].status = "done"]_vars

\* OLLAMA posted a task, BLACK claimed it and completed it: it is done,
\* claimed by BLACK, with the result.
C37_Witness ==
    /\ opRet.op = "complete_task" /\ opRet.flags[1] = "p1" /\ opRet.ret = "true"
    /\ Len(tasks) = 1
    /\ tasks[1].status = "done" /\ tasks[1].claimed_by = N_BLACK
    /\ tasks[1].result = "res1" /\ ~tasks[1].deleted

====
